---- MODULE Spec2Model ----
(***************************************************************************)
(* Action-capture and stabilization pipeline of the session recorder:      *)
(*   content.js    ElementSelector, ActionRecorder (event handlers,        *)
(*                 debounce, duplicate suppression, readiness waits)       *)
(*   background.js RecordingSession, RecordingManager, message listeners   *)
(*                                                                         *)
(* Time is a millisecond clock `now`.  A timer is the set holding its      *)
(* deadline ({} when no timer is scheduled); a timer fires when the clock  *)
(* reaches its deadline, and the clock never passes the deadline of a      *)
(* scheduled timer.                                                        *)
(***************************************************************************)
EXTENDS Integers, Sequences, FiniteSets, Bags, TLC

VARIABLES
    now,            \* milliseconds since the page was loaded
    \* ---- waitForDOMStability (one call) ----
    domState,       \* "idle" | "waiting" | "resolved": the returned promise
    timeout,        \* the `timeout` local: the one scheduled timer of the call
    observer,       \* "none" | "connected" | "disconnected": the `observer` local
    rafPending,     \* the requestAnimationFrame callback has not run yet
    domStart,       \* clock at the call
    domResolvedAt,  \* clock at resolve()
    \* ---- waitForNetworkIdle (calls 1..MaxCalls) and the page's transports ----
    fetchHook,      \* window.fetch: Native or the wrapper installed by a call
    xhrOpenHook,    \* XMLHttpRequest.prototype.open
    xhrSendHook,    \* XMLHttpRequest.prototype.send
    netState,       \* per call: "idle" | "waiting" | "resolved"
    originalFetch,  \* per call: the `originalFetch` local
    XHROpen,        \* per call: the `XHROpen` local
    XHRSend,        \* per call: the `XHRSend` local
    pendingRequests,\* per call: the `pendingRequests` local
    idleTimer,      \* per call: the `idleTimer` local
    ceilTimer,      \* per call: the setTimeout(..., maxWaitTime) timer
    netStart,       \* per call: clock at the call
    netMaxWait,     \* per call: the maxWaitTime argument
    hooksAtResolve, \* per call: <<fetch, open, send>> hooks at the first resolve()
    requests,       \* the page's unsettled requests: a bag of records
    issued,         \* number of requests the page has issued
    \* ---- waitForPageStabilization (one call) ----
    stabKind,       \* action.type of the action being stabilized
    stabPhase,      \* "idle" | "dom" | "net" | "delay" | "img" | "done"
    stabTimer,      \* the fixed-delay setTimeout of the current branch
    stabStart,      \* clock at the call
    stabDoneAt,     \* clock when the async function returned
    imgPending,     \* images in the viewport whose promise is unresolved
    imgTimer,       \* the per-image setTimeout(resolve, 500) timers
    \* ---- the page and its ActionRecorder ----
    value,          \* per element: element.value
    scrollY,        \* window.scrollY
    isRecording,    \* recorder.isRecording
    isPaused,       \* recorder.isPaused
    sessionId,      \* recorder.sessionId (0: null)
    lastAction,     \* recorder.lastAction: {} (null) or {action}
    inputBuffer,    \* recorder.inputBuffer: element -> {timer id} ({}: no entry)
    scrollTimeout,  \* recorder.scrollTimeout: {timer id} ({}: undefined)
    listeners,      \* recorder.listeners: the event kinds in the Map
    docListeners,   \* per event kind: handlers registered on the document
    timers,         \* scheduled debounce timers of the handlers
    nextTimerId,    \* the id the next setTimeout returns
    inflight,       \* recordAction calls that have not sent their message yet
    sent,           \* the recordAction messages sent, in order
    nextActionNo,   \* number of recordAction calls so far, plus one
    eventCount,     \* number of DOM events dispatched so far
    lastInputAt,    \* per element: clock of the last input event handleInput got
    lastScrollAt,   \* clock of the last scroll event handleScroll got ({}: none)
                    \* ({}: none)
    \* ---- the background page and its RecordingManager ----
    sessions,       \* recordingManager.sessions: tab -> session (NoSession: no entry)
    activeTab,      \* recordingManager.activeTab (0: null)
    nextUuid,       \* the value the next crypto.randomUUID() returns
    starts,         \* the startRecording calls under way and how far each has come
    started,        \* number of startRecording calls so far
    restarts,       \* the setTimeout(..., 500) timers of tabs.onUpdated
    openTabs,       \* the tabs that exist
    toContent,      \* messages to the content script of PageTab, in order
    appended,       \* number of records appended so far
    reloads,        \* number of times the page of PageTab has been reloaded
    lastOp,         \* the last RecordingManager method that ran: its name, tab
                    \* and result
    stopLog,        \* idle: the tabs whose session stopRecording has removed and
                    \* for which startRecording was not called since; ids: the
                    \* ids of the sessions stopRecording has exported
    \* ---- maskSensitiveData applied on its own ----
    maskVal,        \* the `value` argument of the first call
    maskEl,         \* the `element` argument: an index of Fields
    maskOut,        \* the values returned so far: each call masks the last one
    \* ---- the document ----
    hasBody,        \* document.body is an element (FALSE: null)
    uncaught,       \* the event kinds whose handler has thrown
    \* ---- ElementSelector applied on its own ----
    selDoc,         \* the document: its elements in document order
    selTarget,      \* the `element` argument: a position in selDoc
    selOut,         \* <<>>, or the outcome of getSelector(element)
    xpOut,          \* <<>>, or the outcome of getXPath(element)
    \* ---- extractFormData applied on its own ----
    formEls,        \* form.elements: the controls of the form, in tree order
    formOut         \* <<>>, or the map extractFormData(form) returned

timeVars == <<now>>
domVars  == <<domState, timeout, observer, rafPending, domStart, domResolvedAt>>
netVars  == <<fetchHook, xhrOpenHook, xhrSendHook, netState, originalFetch, XHROpen,
              XHRSend, pendingRequests, idleTimer, ceilTimer, netStart, netMaxWait,
              hooksAtResolve, requests, issued>>
stabVars == <<stabKind, stabPhase, stabTimer, stabStart, stabDoneAt, imgPending, imgTimer>>
recVars  == <<value, scrollY, isRecording, isPaused, sessionId, lastAction, inputBuffer,
              scrollTimeout, listeners, docListeners, timers, nextTimerId, inflight, sent,
              nextActionNo, eventCount, lastInputAt, lastScrollAt>>
mgrVars  == <<sessions, activeTab, nextUuid, starts, started, restarts, openTabs, toContent,
              appended, reloads, lastOp, stopLog>>
maskVars == <<maskVal, maskEl, maskOut>>
docVars  == <<hasBody, uncaught>>
selVars  == <<selDoc, selTarget, selOut, xpOut>>
formVars == <<formEls, formOut>>
waitVars == <<domVars, netVars, stabVars>>
outsideWait == <<recVars, mgrVars, maskVars, selVars, formVars, docVars>>
outsideRec  == <<waitVars, mgrVars, maskVars, selVars, formVars, docVars>>
outsideMgr  == <<waitVars, recVars, maskVars, selVars, formVars, docVars>>
outsideMask == <<timeVars, waitVars, recVars, mgrVars, docVars, selVars, formVars>>
outsideSel  == <<timeVars, waitVars, recVars, mgrVars, maskVars, docVars, formVars>>
outsideForm == <<timeVars, waitVars, recVars, mgrVars, maskVars, selVars, docVars>>
vars     == <<timeVars, domVars, netVars, stabVars, recVars, mgrVars, maskVars, selVars, formVars, docVars>>

----------------------------------------------------------------------------
(* Bounds of the model *)
MaxCalls  == 2      \* waitForNetworkIdle calls
MaxReqs   == 3      \* requests the page issues
MaxImages == 1      \* images intersecting the viewport
MaxEvents == 2      \* DOM events dispatched on the page
MaxStarts == 2      \* startRecording calls
MaxQueue == 2       \* messages on their way to the content script
MaxAppends == 1     \* records appended to sessions
MaxStamped == 2     \* records appended in the timestamp specification
StampMaxTime == 200 \* clock bound of the timestamp specification
MaxReloads == 1     \* reloads of the page
MgrMaxTime == 100   \* clock bound of the manager specification
PipeMaxTime == 600  \* clock bound of the pipeline specification
MaxPipeStarts == 1  \* startRecording calls in the pipeline specification
MaxPipeEvents == 1  \* DOM events in the pipeline specification
MaxValueLen == 7    \* length of the values masked exhaustively
MaxControls == 2     \* controls of a form
MaxContent == 3     \* elements inside the body of a document
MaxCtlEvents == 1   \* DOM events in the control specification
CtlMaxTime == 300   \* clock bound of the control specification
KeyMaxTime == 400    \* clock bound of the key-press specification
InputMaxTime == 1500 \* clock bound of the typing specification
EpochMs   == 1000000 \* Date.now() when the page was loaded
WaitMaxTime == 2300 \* clock bound of the readiness-wait specification
NetMaxTime  == 1300 \* clock bound of the network-idle specification
WaitSteps == {100} \* clock advances of the readiness-wait specification
KeySteps  == {50}       \* clock advances of the key-press specification
InputSteps == {250}     \* clock advances of the typing specification
MgrSteps  == {100}      \* clock advances of the manager specification
PipeSteps == {500}      \* clock advances of the pipeline specification
NetSteps  == {500}      \* clock advances of the network-idle specification
CtlSteps  == {100}      \* clock advances of the control specification

(* Program constants *)
DomCeilingMs   == 1000
DomSilenceMs   == 200
NetIdleMs      == 300
ClickNetWaitMs == 1000
DefaultNetWaitMs == 1500
InputSettleMs  == 300
ScrollSettleMs == 500
DefaultSettleMs == 200
ImageCapMs     == 500
InputDebounceMs  == 500
ScrollDebounceMs == 200
DedupWindowMs    == 100
StartDelayMs     == 100
RestartDelayMs   == 500

Calls  == 1..MaxCalls
Images == 1..MaxImages
Native == 0
Hooks  == {Native} \cup Calls
MaxWaits == {ClickNetWaitMs, DefaultNetWaitMs}
ActionTypes == {"click", "dblclick", "input", "select", "checkbox", "radio", "submit",
                "keypress", "scroll", "hover", "focus", "blur"}

Due(timer) == \E d \in timer : d <= now

Min(S) == CHOOSE x \in S : \A y \in S : x <= y

AllTimers ==
    timeout \cup stabTimer \cup imgTimer
    \cup UNION {idleTimer[c] : c \in Calls} \cup UNION {ceilTimer[c] : c \in Calls}
    \cup {t.at : t \in timers} \cup UNION {a.at : a \in inflight}
    \cup UNION {c.at : c \in starts} \cup restarts

\* The clock moves on by at most `step`, never past a scheduled timer nor past
\* maxTime, and only when every timer that is due has fired.
Advance(step, maxTime) ==
    /\ \A d \in AllTimers : d > now
    /\ now' = Min({now + step} \cup AllTimers)
    /\ now' <= maxTime

----------------------------------------------------------------------------
(* waitForNetworkIdle *)

\* The wrappers a call through hook h runs, outermost first: wrapper h, then the
\* function h saved as its original, and so on down to the native function.
RECURSIVE Chain(_, _)
Chain(h, orig) == IF h = Native THEN {} ELSE {h} \cup Chain(orig[h], orig)

\* checkIdle() run by each call of S after the counters became `pending`:
\* clearTimeout(idleTimer); idleTimer = setTimeout(resolve, 300) when the count is 0.
checkIdle(S, pending) ==
    [c \in Calls |-> IF c \in S /\ pending[c] = 0 THEN {now + NetIdleMs} ELSE idleTimer[c]]

\* resolve() of call c's promise; only the first resolve has an effect.  `f`, `o`,
\* `s` are the transport hooks in place when resolve() runs.
NetResolve(c, f, o, s) ==
    IF netState[c] = "waiting"
    THEN /\ netState' = [netState EXCEPT ![c] = "resolved"]
         /\ hooksAtResolve' = [hooksAtResolve EXCEPT ![c] = <<f, o, s>>]
    ELSE UNCHANGED <<netState, hooksAtResolve>>

waitForNetworkIdle(c, maxWaitTime) ==
    /\ netState[c] = "idle"
    /\ netState' = [netState EXCEPT ![c] = "waiting"]
    /\ netStart' = [netStart EXCEPT ![c] = now]
    /\ netMaxWait' = [netMaxWait EXCEPT ![c] = maxWaitTime]
    /\ pendingRequests' = [pendingRequests EXCEPT ![c] = 0]
    /\ originalFetch' = [originalFetch EXCEPT ![c] = fetchHook]
    /\ fetchHook' = c
    /\ XHROpen' = [XHROpen EXCEPT ![c] = xhrOpenHook]
    /\ XHRSend' = [XHRSend EXCEPT ![c] = xhrSendHook]
    /\ xhrOpenHook' = c
    /\ xhrSendHook' = c
    /\ ceilTimer' = [ceilTimer EXCEPT ![c] = {now + maxWaitTime}]
    /\ idleTimer' = checkIdle({c}, pendingRequests')
    /\ UNCHANGED <<hooksAtResolve, requests, issued>>

\* The idle timer's callback: () => resolve()
idleTimerFired(c) ==
    /\ Due(idleTimer[c])
    /\ idleTimer' = [idleTimer EXCEPT ![c] = {}]
    /\ NetResolve(c, fetchHook, xhrOpenHook, xhrSendHook)
    /\ UNCHANGED <<fetchHook, xhrOpenHook, xhrSendHook, originalFetch, XHROpen, XHRSend,
                   pendingRequests, ceilTimer, netStart, netMaxWait, requests, issued>>

\* ceilingTimerFired with the resolve() call left out.
ceilingTimerFired_NoResolve(c) ==
    /\ Due(ceilTimer[c])
    /\ ceilTimer' = [ceilTimer EXCEPT ![c] = {}]
    /\ fetchHook' = originalFetch[c]
    /\ xhrOpenHook' = XHROpen[c]
    /\ xhrSendHook' = XHRSend[c]
    /\ UNCHANGED <<netState, hooksAtResolve, originalFetch, XHROpen, XHRSend,
                   pendingRequests, idleTimer, netStart, netMaxWait, requests, issued>>

\* The "timeout fallback" callback: restore the saved functions, then resolve()
ceilingTimerFired(c) ==
    /\ Due(ceilTimer[c])
    /\ ceilTimer' = [ceilTimer EXCEPT ![c] = {}]
    /\ fetchHook' = originalFetch[c]
    /\ xhrOpenHook' = XHROpen[c]
    /\ xhrSendHook' = XHRSend[c]
    /\ NetResolve(c, originalFetch[c], XHROpen[c], XHRSend[c])
    /\ UNCHANGED <<originalFetch, XHROpen, XHRSend, pendingRequests, idleTimer,
                   netStart, netMaxWait, requests, issued>>

\* The page's requests are followed while a wrapper can still count them or
\* has: an XHR opened without _monitored and a request no wrapper counted have
\* no further effect on the calls.
One(q) ==
    IF (q.state = "opened" /\ q.monitored) \/ (q.state = "sent" /\ q.counted # {})
    THEN SetToBag({q})
    ELSE EmptyBag

\* The page calls window.fetch(): every wrapper on the chain counts the request.
fetchCalled ==
    /\ issued < MaxReqs
    /\ issued' = issued + 1
    /\ LET counted == Chain(fetchHook, originalFetch) IN
       /\ requests' = requests (+) One([kind |-> "fetch", state |-> "sent",
                                       monitored |-> FALSE, counted |-> counted])
       /\ pendingRequests' = [c \in Calls |->
                                 IF c \in counted THEN pendingRequests[c] + 1
                                 ELSE pendingRequests[c]]
    /\ UNCHANGED <<fetchHook, xhrOpenHook, xhrSendHook, netState, originalFetch, XHROpen,
                   XHRSend, idleTimer, ceilTimer, netStart, netMaxWait, hooksAtResolve>>

\* The page calls xhr.open(): any wrapper on the chain marks the object _monitored.
xhrOpened ==
    /\ issued < MaxReqs
    /\ issued' = issued + 1
    /\ requests' = requests (+) One([kind |-> "xhr", state |-> "opened",
                                    monitored |-> (xhrOpenHook # Native), counted |-> {}])
    /\ UNCHANGED <<fetchHook, xhrOpenHook, xhrSendHook, netState, originalFetch, XHROpen,
                   XHRSend, pendingRequests, idleTimer, ceilTimer, netStart, netMaxWait,
                   hooksAtResolve>>

\* The page calls xhr.send() on the opened object q: every wrapper on the chain
\* counts a _monitored object.
xhrSent(q) ==
    /\ BagIn(q, requests)
    /\ q.state = "opened"
    /\ LET counted == IF q.monitored THEN Chain(xhrSendHook, XHRSend) ELSE {} IN
       /\ requests' = (requests (-) SetToBag({q}))
                         (+) One([q EXCEPT !.state = "sent", !.counted = counted])
       /\ pendingRequests' = [c \in Calls |->
                                 IF c \in counted THEN pendingRequests[c] + 1
                                 ELSE pendingRequests[c]]
    /\ UNCHANGED <<fetchHook, xhrOpenHook, xhrSendHook, netState, originalFetch, XHROpen,
                   XHRSend, idleTimer, ceilTimer, netStart, netMaxWait, hooksAtResolve,
                   issued>>

\* The request q settles (fetch: the finally block; XHR: load, error or abort):
\* every wrapper that counted it runs pendingRequests--; checkIdle().
requestSettled(q) ==
    /\ BagIn(q, requests)
    /\ q.state = "sent"
    /\ requests' = requests (-) SetToBag({q})
    /\ pendingRequests' = [c \in Calls |->
                              IF c \in q.counted THEN pendingRequests[c] - 1
                              ELSE pendingRequests[c]]
    /\ idleTimer' = checkIdle(q.counted, pendingRequests')
    /\ UNCHANGED <<fetchHook, xhrOpenHook, xhrSendHook, netState, originalFetch, XHROpen,
                   XHRSend, ceilTimer, netStart, netMaxWait, hooksAtResolve, issued>>

NetInit ==
    /\ fetchHook = Native
    /\ xhrOpenHook = Native
    /\ xhrSendHook = Native
    /\ netState = [c \in Calls |-> "idle"]
    /\ originalFetch = [c \in Calls |-> Native]
    /\ XHROpen = [c \in Calls |-> Native]
    /\ XHRSend = [c \in Calls |-> Native]
    /\ pendingRequests = [c \in Calls |-> 0]
    /\ idleTimer = [c \in Calls |-> {}]
    /\ ceilTimer = [c \in Calls |-> {}]
    /\ netStart = [c \in Calls |-> 0]
    /\ netMaxWait = [c \in Calls |-> 0]
    /\ hooksAtResolve = [c \in Calls |-> <<Native, Native, Native>>]
    /\ requests = EmptyBag
    /\ issued = 0

----------------------------------------------------------------------------
(* waitForDOMStability *)

\* done(): if (observer) observer.disconnect(); clearTimeout(timeout); resolve()
done ==
    /\ observer' = IF observer = "connected" THEN "disconnected" ELSE observer
    /\ timeout' = {}
    /\ IF domState = "waiting"
       THEN domState' = "resolved" /\ domResolvedAt' = now
       ELSE UNCHANGED <<domState, domResolvedAt>>
    /\ UNCHANGED <<rafPending, domStart>>

\* The promise executor: timeout = setTimeout(done, 1000); requestAnimationFrame(...)
waitForDOMStability ==
    /\ domState = "idle"
    /\ domState' = "waiting"
    /\ timeout' = {now + DomCeilingMs}
    /\ rafPending' = TRUE
    /\ domStart' = now
    /\ UNCHANGED <<observer, domResolvedAt>>

\* The animation-frame callback: create and connect the observer, then
\* clearTimeout(timeout); timeout = setTimeout(done, 200)
animationFrame ==
    /\ rafPending
    /\ rafPending' = FALSE
    /\ observer' = "connected"
    /\ timeout' = {now + DomSilenceMs}
    /\ UNCHANGED <<domState, domStart, domResolvedAt>>

\* The MutationObserver callback: clearTimeout(timeout); timeout = setTimeout(done, 200)
mutationObserved ==
    /\ observer = "connected"
    /\ timeout' = {now + DomSilenceMs}
    /\ UNCHANGED <<domState, observer, rafPending, domStart, domResolvedAt>>

DomInit ==
    /\ domState = "idle"
    /\ timeout = {}
    /\ observer = "none"
    /\ rafPending = FALSE
    /\ domStart = 0
    /\ domResolvedAt = 0

----------------------------------------------------------------------------
(* waitForPageStabilization and waitForImagesInViewport *)

\* The async function returns: the awaiting recordAction continues.
StabReturn ==
    /\ stabPhase' = "done"
    /\ stabDoneAt' = now

\* The action types handleChange builds: 'select' for a SELECT element, else
\* element.type for a checkbox or a radio button.
ChangeActionTypes == {"select", "checkbox", "radio"}

\* The fixed delay the branch for `kind` starts with ({} for click and submit,
\* which start with waitForDOMStability instead).
SettleDelay(kind) ==
    IF kind \in {"click", "submit"} THEN {}
    ELSE IF kind \in {"input", "change"} THEN {InputSettleMs}
    ELSE IF kind = "scroll" THEN {ScrollSettleMs}
    ELSE {DefaultSettleMs}

waitForPageStabilization(kind) ==
    /\ stabPhase = "idle"
    /\ stabKind' = kind
    /\ stabStart' = now
    /\ IF SettleDelay(kind) = {}
       THEN /\ waitForDOMStability
            /\ stabPhase' = "dom"
            /\ stabTimer' = {}
       ELSE /\ stabPhase' = "delay"
            /\ stabTimer' = {now + d : d \in SettleDelay(kind)}
            /\ UNCHANGED domVars
    /\ UNCHANGED <<stabDoneAt, imgPending, imgTimer>>

\* waitForImagesInViewport with `incomplete` the images of the viewport that are
\* not complete: one promise and one 500 ms timer per image, joined by Promise.all.
waitForImagesInViewport(incomplete) ==
    IF incomplete = {}
    THEN StabReturn /\ UNCHANGED <<imgPending, imgTimer>>
    ELSE /\ stabPhase' = "img"
         /\ imgPending' = incomplete
         /\ imgTimer' = {now + ImageCapMs}
         /\ UNCHANGED stabDoneAt

\* The fixed delay of the branch has elapsed.
settleDelayElapsed ==
    /\ Due(stabTimer)
    /\ stabPhase = "delay"
    /\ stabTimer' = {}
    /\ IF stabKind = "scroll"
       THEN \E incomplete \in SUBSET Images : waitForImagesInViewport(incomplete)
       ELSE StabReturn /\ UNCHANGED <<imgPending, imgTimer>>
    /\ UNCHANGED <<stabKind, stabStart>>

\* An image's load or error event.
imageSettled(i) ==
    /\ i \in imgPending
    /\ imgPending' = imgPending \ {i}
    /\ IF imgPending' = {} /\ stabPhase = "img"
       THEN StabReturn
       ELSE UNCHANGED <<stabPhase, stabDoneAt>>
    /\ UNCHANGED <<stabKind, stabTimer, stabStart, imgTimer>>

\* The per-image setTimeout(resolve, 500) timers (all set at the same instant).
imageTimedOut ==
    /\ Due(imgTimer)
    /\ imgTimer' = {}
    /\ imgPending' = {}
    /\ IF stabPhase = "img"
       THEN StabReturn
       ELSE UNCHANGED <<stabPhase, stabDoneAt>>
    /\ UNCHANGED <<stabKind, stabTimer, stabStart>>

\* `await this.waitForDOMStability()` continues with waitForNetworkIdle(1000).
StabAfterDOM ==
    IF domState = "waiting" /\ stabPhase = "dom"
    THEN /\ waitForNetworkIdle(Min(Calls), ClickNetWaitMs)
         /\ stabPhase' = "net"
         /\ UNCHANGED <<stabKind, stabTimer, stabStart, stabDoneAt, imgPending, imgTimer>>
    ELSE UNCHANGED <<netVars, stabVars>>

\* `await this.waitForNetworkIdle(1000)` continues: the function returns.
StabAfterNet(c) ==
    IF netState[c] = "waiting" /\ stabPhase = "net" /\ c = Min(Calls)
    THEN StabReturn /\ UNCHANGED <<stabKind, stabTimer, stabStart, imgPending, imgTimer>>
    ELSE UNCHANGED stabVars

StabInit ==
    /\ stabKind = "none"
    /\ stabPhase = "idle"
    /\ stabTimer = {}
    /\ stabStart = 0
    /\ stabDoneAt = 0
    /\ imgPending = {}
    /\ imgTimer = {}

----------------------------------------------------------------------------
(* Text values: a string is a sequence of one-character strings *)

Lower  == {"a", "b", "c", "d", "e", "f", "g", "h", "i", "j", "k", "l", "m", "n", "o", "p",
           "q", "r", "s", "t", "u", "v", "w", "x", "y", "z"}
UpperSeq == <<"A", "B", "C", "D", "E", "H", "L", "M", "O", "P", "S", "T", "Y">>
LowerSeq == <<"a", "b", "c", "d", "e", "h", "l", "m", "o", "p", "s", "t", "y">>
Upper  == {UpperSeq[i] : i \in DOMAIN UpperSeq}
Digits == {"0", "1", "2"}
Letters == Lower \cup Upper
LocalChars  == Letters \cup Digits \cup {".", "_", "%", "+", "-"}
DomainChars == Letters \cup Digits \cup {".", "-"}

Max(S) == CHOOSE x \in S : \A y \in S : x >= y

toLowerCase(str) ==
    [i \in DOMAIN str |->
        IF str[i] \in Upper
        THEN LowerSeq[CHOOSE k \in DOMAIN UpperSeq : UpperSeq[k] = str[i]]
        ELSE str[i]]

\* String.prototype.includes
Includes(str, part) ==
    \E i \in 1..(Len(str) - Len(part) + 1) : SubSeq(str, i, i + Len(part) - 1) = part

\* "*".repeat(n), were it the fixed '***' of extractFormData
Stars_Three(n) == <<"*", "*", "*">>

\* "*".repeat(n)
Stars(n) == [i \in 1..n |-> "*"]

\* Index of the last character of the longest run of characters of S that starts
\* at index i (i - 1 when the run is empty).
RunEnd(str, i, S) ==
    CHOOSE k \in (i - 1)..Len(str) :
        /\ \A m \in i..k : str[m] \in S
        /\ k = Len(str) \/ str[k + 1] \notin S

\* One attempt of /([a-zA-Z0-9._%+-]+)@([a-zA-Z0-9.-]+\.[a-zA-Z]{2,})/ at index i:
\* the greedy local part, '@', then the greedy domain, which backtracks to the
\* last '.' of its run that two letters follow.
EmailMatch(str, i) ==
    LET le   == RunEnd(str, i, LocalChars)
        j    == le + 2
        de   == RunEnd(str, j, DomainChars)
        dots == {q \in (j + 1)..(de - 2) :
                    str[q] = "." /\ str[q + 1] \in Letters /\ str[q + 2] \in Letters}
    IN  IF le >= i /\ le < Len(str) /\ str[le + 1] = "@" /\ dots # {}
        THEN [found |-> TRUE, at |-> le + 1, last |-> RunEnd(str, Max(dots) + 1, Letters)]
        ELSE [found |-> FALSE, at |-> 0, last |-> 0]

\* value.replace(emailRegex, (match, local, domain) => local.charAt(0) + '***@' + domain)
RECURSIVE ReplaceEmails(_, _)
ReplaceEmails(str, i) ==
    IF i > Len(str) THEN <<>>
    ELSE LET m == EmailMatch(str, i) IN
         IF m.found
         THEN <<str[i], "*", "*", "*", "@">> \o SubSeq(str, m.at + 1, m.last)
                 \o ReplaceEmails(str, m.last + 1)
         ELSE <<str[i]>> \o ReplaceEmails(str, i + 1)

sensitiveFields ==
    {<<"p", "a", "s", "s", "w", "o", "r", "d">>, <<"c", "r", "e", "d", "i", "t">>,
     <<"c", "a", "r", "d">>, <<"c", "v", "v">>, <<"s", "s", "n">>,
     <<"s", "e", "c", "r", "e", "t">>}

maskSensitiveData(val, element) ==
    LET fieldName == toLowerCase(element.name \o element.id \o element.className) IN
    IF element.type = "password" THEN Stars(Len(val))
    ELSE IF \E field \in sensitiveFields : Includes(fieldName, field) THEN Stars(Len(val))
    ELSE ReplaceEmails(val, 1)

----------------------------------------------------------------------------
(* extractFormData *)

\* A form control as extractFormData and maskSensitiveData read it
Control(name, type, disabled, checked, val) ==
    [name |-> name, type |-> type, disabled |-> disabled, checked |-> checked,
     value |-> val, id |-> <<>>, className |-> <<>>]

\* formData[name] = val: the property is created, or overwritten when the
\* object has it already.
SetProperty(formData, name, val) ==
    [n \in DOMAIN formData \cup {name} |-> IF n = name THEN val ELSE formData[n]]

\* One turn of `for (let element of elements)`
ExtractControl(formData, element) ==
    IF element.name # <<>> /\ ~element.disabled
    THEN IF element.type = "password"
         THEN SetProperty(formData, element.name, <<"*", "*", "*">>)
         ELSE IF element.type = "checkbox" \/ element.type = "radio"
         THEN IF element.checked
              THEN SetProperty(formData, element.name, element.value)
              ELSE formData
         ELSE SetProperty(formData, element.name,
                          maskSensitiveData(element.value, element))
    ELSE formData

\* The loop over elements[i..], started with the object formData
RECURSIVE ExtractFrom(_, _, _)
ExtractFrom(elements, i, formData) ==
    IF i > Len(elements) THEN formData
    ELSE ExtractFrom(elements, i + 1, ExtractControl(formData, elements[i]))

\* extractFormData(form): the object is a function from the names that have
\* a property to their values.
extractFormData(elements) == ExtractFrom(elements, 1, <<>>)

----------------------------------------------------------------------------
(* Documents *)

\* A document is the sequence of its elements in document order.  An element
\* has its tagName, its id, data-testid and aria-label attributes (<<>>: not
\* set), its classList and the position of its parent (0: the document).
Element(tagName, id, testid, aria, classList, parent) ==
    [tagName |-> tagName, id |-> id, testid |-> testid, aria |-> aria,
     classList |-> classList, parent |-> parent]

\* parent.children, in document order
Children(doc, p) == {k \in DOMAIN doc : doc[k].parent = p}

\* siblings.indexOf(current) + 1
ChildIndex(doc, e) == Cardinality({k \in Children(doc, doc[e].parent) : k <= e})

RECURSIVE IsDescendant(_, _, _)
IsDescendant(doc, e, a) ==
    /\ doc[e].parent # 0
    /\ doc[e].parent = a \/ IsDescendant(doc, doc[e].parent, a)

\* document.body
BodyOf(doc) == CHOOSE k \in DOMAIN doc : doc[k].tagName = <<"B", "O", "D", "Y">>

DecDigits == <<"0", "1", "2", "3", "4", "5", "6", "7", "8", "9">>
DecDigitSet == {DecDigits[i] : i \in DOMAIN DecDigits}

\* `${n}`: the decimal digits of n
RECURSIVE NumberToString(_)
NumberToString(n) ==
    IF n < 10 THEN <<DecDigits[n + 1]>>
    ELSE NumberToString(n \div 10) \o <<DecDigits[(n % 10) + 1]>>

\* The number a sequence of decimal digits denotes
RECURSIVE ParseInt(_)
ParseInt(str) ==
    IF str = <<>> THEN 0
    ELSE 10 * ParseInt(SubSeq(str, 1, Len(str) - 1))
           + (CHOOSE d \in 0..9 : DecDigits[d + 1] = str[Len(str)])

\* str has `part` at index i
StartsWith(str, i, part) ==
    /\ i + Len(part) - 1 <= Len(str)
    /\ SubSeq(str, i, i + Len(part) - 1) = part

\* Array.prototype.join
RECURSIVE Join(_, _)
Join(strs, sep) ==
    IF strs = <<>> THEN <<>>
    ELSE IF Len(strs) = 1 THEN strs[1]
    ELSE strs[1] \o sep \o Join(Tail(strs), sep)

----------------------------------------------------------------------------
(* document.querySelectorAll for the selectors ElementSelector writes *)

\* The characters of a CSS identifier; an identifier does not begin with a digit.
IdentChars == Letters \cup DecDigitSet \cup {"_", "-"}
IdentStart == Letters \cup {"_"}
AttrNameChars == Letters \cup {"-"}
AttrValueChars == IdentChars \cup {".", ":", " "}

NthChildOpen == <<":", "n", "t", "h", "-", "c", "h", "i", "l", "d", "(">>
Combinator == <<" ", ">", " ">>
DataTestid == <<"d", "a", "t", "a", "-", "t", "e", "s", "t", "i", "d">>
AriaLabel == <<"a", "r", "i", "a", "-", "l", "a", "b", "e", "l">>

\* A compound selector: a type selector (<<>>: none), id selectors, class
\* selectors, :nth-child(n) (0: none) and attribute selectors [name="value"]
AnyElement == [ok |-> TRUE, tag |-> <<>>, ids |-> {}, classes |-> {}, nth |-> 0,
               attrs |-> {}]
SyntaxError == [AnyElement EXCEPT !.ok = FALSE]

\* The simple selectors of a compound selector from index i on; anything the
\* grammar has no rule for, an identifier beginning with a digit or an unknown
\* pseudo-class among them, makes the selector invalid.
RECURSIVE ParseSimples(_, _, _)
ParseSimples(str, i, acc) ==
    IF i > Len(str) THEN acc
    ELSE IF str[i] \in {"#", "."}
    THEN LET e == RunEnd(str, i + 1, IdentChars) IN
         IF e < i + 1 \/ str[i + 1] \notin IdentStart THEN SyntaxError
         ELSE ParseSimples(str, e + 1,
                 IF str[i] = "#"
                 THEN [acc EXCEPT !.ids = @ \cup {SubSeq(str, i + 1, e)}]
                 ELSE [acc EXCEPT !.classes = @ \cup {SubSeq(str, i + 1, e)}])
    ELSE IF str[i] = ":"
    THEN IF ~StartsWith(str, i, NthChildOpen) THEN SyntaxError
         ELSE LET j == i + Len(NthChildOpen)
                  e == RunEnd(str, j, DecDigitSet)
              IN  IF e >= j /\ StartsWith(str, e + 1, <<")">>)
                  THEN ParseSimples(str, e + 2,
                          [acc EXCEPT !.nth = ParseInt(SubSeq(str, j, e))])
                  ELSE SyntaxError
    ELSE IF str[i] = "["
    THEN LET ne == RunEnd(str, i + 1, AttrNameChars) IN
         IF ne < i + 1 \/ ~StartsWith(str, ne + 1, <<"=", "\"">>) THEN SyntaxError
         ELSE LET ve == RunEnd(str, ne + 3, AttrValueChars) IN
              IF StartsWith(str, ve + 1, <<"\"", "]">>)
              THEN ParseSimples(str, ve + 3,
                      [acc EXCEPT !.attrs = @ \cup {<<SubSeq(str, i + 1, ne),
                                                      SubSeq(str, ne + 3, ve)>>}])
              ELSE SyntaxError
    ELSE SyntaxError

ParseCompound(str) ==
    IF str = <<>> THEN SyntaxError
    ELSE IF str[1] \in IdentStart
    THEN LET e == RunEnd(str, 1, IdentChars) IN
         ParseSimples(str, e + 1, [AnyElement EXCEPT !.tag = SubSeq(str, 1, e)])
    ELSE ParseSimples(str, 1, AnyElement)

\* The compound selectors of a selector, split at the child combinators
RECURSIVE SplitPath(_, _, _)
SplitPath(str, i, from) ==
    IF i > Len(str) THEN <<SubSeq(str, from, Len(str))>>
    ELSE IF StartsWith(str, i, Combinator)
    THEN <<SubSeq(str, from, i - 1)>> \o SplitPath(str, i + 3, i + 3)
    ELSE SplitPath(str, i + 1, from)

\* element.getAttribute(name)
GetAttribute(el, name) ==
    IF name = DataTestid THEN el.testid
    ELSE IF name = AriaLabel THEN el.aria
    ELSE <<>>

MatchesCompound(doc, k, c) ==
    /\ c.tag # <<>> => toLowerCase(doc[k].tagName) = toLowerCase(c.tag)
    /\ \A id \in c.ids : doc[k].id = id
    /\ \A cl \in c.classes : \E n \in DOMAIN doc[k].classList : doc[k].classList[n] = cl
    /\ c.nth # 0 => ChildIndex(doc, k) = c.nth
    /\ \A a \in c.attrs : GetAttribute(doc[k], a[1]) # <<>> /\ GetAttribute(doc[k], a[1]) = a[2]

\* Element k matches the first n compound selectors, joined by '>'
RECURSIVE MatchesPath(_, _, _, _)
MatchesPath(doc, k, parts, n) ==
    /\ MatchesCompound(doc, k, parts[n])
    /\ n > 1 => /\ doc[k].parent # 0
                /\ MatchesPath(doc, doc[k].parent, parts, n - 1)

\* document.querySelectorAll(selector): the elements matched, or a SyntaxError
querySelectorAll(doc, selector) ==
    LET strs  == SplitPath(selector, 1, 1)
        parts == [i \in DOMAIN strs |-> ParseCompound(strs[i])]
    IN  IF \E i \in DOMAIN parts : ~parts[i].ok
        THEN [threw |-> TRUE, nodes |-> {}]
        ELSE [threw |-> FALSE,
              nodes |-> {k \in DOMAIN doc : MatchesPath(doc, k, parts, Len(parts))}]

----------------------------------------------------------------------------
(* ElementSelector *)

Hover  == <<"h", "o", "v", "e", "r">>
Active == <<"a", "c", "t", "i", "v", "e">>
Focus  == <<"f", "o", "c", "u", "s">>

\* c => !c.includes('hover') && !c.includes('active') && !c.includes('focus')
NotTransient(c) == ~Includes(c, Hover) /\ ~Includes(c, Active) /\ ~Includes(c, Focus)

\* getPathSelector from `current` upwards: the path so far is `path`
RECURSIVE PathFrom(_, _, _)
PathFrom(doc, current, path) ==
    IF current = 0 THEN path
    ELSE IF doc[current].id # <<>>
    THEN <<<<"#">> \o doc[current].id>> \o path
    ELSE LET tag == toLowerCase(doc[current].tagName)
             siblings == IF doc[current].parent = 0 THEN {current}
                         ELSE Children(doc, doc[current].parent)
             selector == IF Cardinality(siblings) > 1
                         THEN tag \o NthChildOpen \o NumberToString(ChildIndex(doc, current))
                                  \o <<")">>
                         ELSE tag
         IN  PathFrom(doc, doc[current].parent, <<selector>> \o path)

getPathSelector(doc, element) == Join(PathFrom(doc, element, <<>>), Combinator)

\* getSelector(element): the selector returned, or an error thrown
getSelector(doc, element) ==
    LET el == doc[element]
        Returns(str) == [threw |-> FALSE, selector |-> str]
    IN  IF el.id # <<>> THEN Returns(<<"#">> \o el.id)
        ELSE IF el.testid # <<>>
        THEN Returns(<<"[">> \o DataTestid \o <<"=", "\"">> \o el.testid \o <<"\"", "]">>)
        ELSE IF el.aria # <<>>
        THEN Returns(<<"[">> \o AriaLabel \o <<"=", "\"">> \o el.aria \o <<"\"", "]">>)
        ELSE LET className == Join(SelectSeq(el.classList, NotTransient), <<".">>)
                 selector == toLowerCase(el.tagName) \o <<".">> \o className
                 found == querySelectorAll(doc, selector)
             IN  IF className # <<>> /\ found.threw
                 THEN [threw |-> TRUE, selector |-> <<>>]
                 ELSE IF className # <<>> /\ Cardinality(found.nodes) = 1
                 THEN Returns(selector)
                 ELSE Returns(getPathSelector(doc, element))

\* getXPath(element): the expression returned (<<>>: null)
getXPath(doc, element) ==
    LET allNodes == {k \in DOMAIN doc : IsDescendant(doc, k, BodyOf(doc))}
        i == Cardinality({k \in allNodes : k < element})
    IN  IF element \in allNodes
        THEN <<"(", "/", "/", "*", ")", "[">> \o NumberToString(i + 1) \o <<"]">>
        ELSE <<>>

\* document.evaluate(expression, document, ...) for an expression (//*)[n]:
\* the n-th element of the document in document order
evaluate(doc, expression) ==
    LET n == ParseInt(SubSeq(expression, 7, Len(expression) - 1))
    IN  {k \in DOMAIN doc : k = n}

----------------------------------------------------------------------------
(* The page *)

\* The id of the recorder's overlay and the text inside it
OverlayId ==
    <<"d", "e", "m", "o", "-", "r", "e", "c", "o", "r", "d", "e", "r", "-",
      "o", "v", "e", "r", "l", "a", "y">>
OverlayText == <<"R", "e", "c", "o", "r", "d", "i", "n", "g">>

SubmitBtnId == <<"s", "u", "b", "m", "i", "t", "-", "b", "t", "n">>

\* The elements of the page that events are dispatched on, with the selector
\* ElementSelector.getSelector derives for each: two form controls, the root
\* of the subtree injectOverlay builds and a button, all four inside
\* document.body, and the root element of the document.  inOverlay is
\* element.closest('#demo-recorder-overlay') !== null.
Page ==
    <<[tagName |-> "INPUT", type |-> "text", id |-> <<"q">>, name |-> <<"q">>,
       className |-> <<>>, selector |-> <<"#", "q">>, innerText |-> <<>>,
       placeholder |-> <<>>, inOverlay |-> FALSE, inBody |-> TRUE],
      [tagName |-> "INPUT", type |-> "password", id |-> <<"p", "w">>, name |-> <<"p", "w">>,
       className |-> <<>>, selector |-> <<"#", "p", "w">>, innerText |-> <<>>,
       placeholder |-> <<>>, inOverlay |-> FALSE, inBody |-> TRUE],
      [tagName |-> "DIV", type |-> "", id |-> OverlayId, name |-> <<>>,
       className |-> <<>>, selector |-> <<"#">> \o OverlayId, innerText |-> OverlayText,
       placeholder |-> <<>>, inOverlay |-> TRUE, inBody |-> TRUE],
      [tagName |-> "BUTTON", type |-> "submit", id |-> SubmitBtnId, name |-> <<>>,
       className |-> <<>>, selector |-> <<"#">> \o SubmitBtnId,
       innerText |-> <<"O", "K">>, placeholder |-> <<>>, inOverlay |-> FALSE,
       inBody |-> TRUE],
      [tagName |-> "HTML", type |-> "", id |-> <<>>, name |-> <<>>,
       className |-> <<>>, selector |-> <<"h", "t", "m", "l">>, innerText |-> <<>>,
       placeholder |-> <<>>, inOverlay |-> FALSE, inBody |-> FALSE]>>
Elements == DOMAIN Page

\* The element is in the document: the root always, a descendant of
\* document.body while there is a body.
InDocument(e) == Page[e].inBody => hasBody

\* The element a key event can be dispatched on: an element inside the body,
\* or the root element when the document has no body.
KeyTarget(e) == IF hasBody THEN Page[e].inBody ELSE ~Page[e].inBody
IsControl(el) == el.tagName = "INPUT"
Controls == SelectSeq(Page, IsControl)

\* The elements maskSensitiveData is applied to: the controls of the page, a text
\* field whose name and id spell a sensitive keyword only when concatenated
\* and lower-cased, and a text field whose class holds one.
Fields ==
    Controls \o
    <<[tagName |-> "INPUT", type |-> "text", id |-> <<"S", "n">>, name |-> <<"s">>,
       className |-> <<>>, selector |-> <<"#", "S", "n">>, innerText |-> <<>>,
       placeholder |-> <<>>, inOverlay |-> FALSE, inBody |-> TRUE],
      [tagName |-> "INPUT", type |-> "text", id |-> <<>>, name |-> <<"n">>,
       className |-> <<"c", "v", "v">>, selector |-> <<"i", "n", "p", "u", "t">>,
       innerText |-> <<>>, placeholder |-> <<>>, inOverlay |-> FALSE, inBody |-> TRUE]>>
Values   == {<<>>, <<"h", "i">>, <<"a", "@", "b", ".", "i", "o">>}
Offsets  == {0, 400}
Keys     == {"Enter", "a"}
Sessions == {1, 2}
Tabs     == {1, 2}
PageTab  == Min(Tabs)   \* the tab whose page and content script are followed
OtherTabs == Tabs \ {PageTab}
EventNames == {"click", "dblclick", "input", "change", "submit", "keydown", "scroll",
               "mouseover", "focus", "blur"}

----------------------------------------------------------------------------
(* ActionRecorder *)

DateNow == EpochMs + now

\* str.substring(0, n)
Substring(str, n) == SubSeq(str, 1, IF Len(str) < n THEN Len(str) ELSE n)

\* a || b on strings: the empty string is falsy
OrElse(a, b) == IF a # <<>> THEN a ELSE b

\* ElementSelector.getElementInfo throws when getXPath does: document.evaluate
\* takes document.body as its context node and throws a TypeError for null.
getElementInfoThrows == ~hasBody

\* ElementSelector.getElementInfo: the descriptor's selector, text and tag
getElementInfo(e) ==
    [selector |-> Page[e].selector,
     text |-> OrElse(Substring(Page[e].innerText, 100),
                     OrElse(value[e], OrElse(Page[e].placeholder, <<>>))),
     tag |-> Page[e].tagName]

NoElement == [selector |-> <<>>, text |-> <<>>, tag |-> ""]

\* What the registry holds for the page's tab at the moment of an event; it
\* travels with the action as the field `origin`, which no code reads.
Origin == [paused |-> sessions[PageTab].isPaused, sid |-> sessions[PageTab].id]

\* obj[name] = val
WithField(obj, name, val) ==
    [f \in DOMAIN obj \cup {name} |-> IF f = name THEN val ELSE obj[f]]

\* action.timestamp || 0
TimestampOf(action) == IF "timestamp" \in DOMAIN action THEN action.timestamp ELSE 0

isDuplicateAction(action) ==
    IF lastAction = {} THEN FALSE
    ELSE LET last == CHOOSE a \in lastAction : TRUE
             timeDiff == DateNow - TimestampOf(last)
         IN  IF timeDiff < DedupWindowMs
             THEN action.type = last.type /\ action.element.selector = last.element.selector
             ELSE FALSE

shouldIgnoreElement(e) ==
    IF Page[e].inOverlay THEN TRUE
    ELSE IF Page[e].type = "password" THEN FALSE
    ELSE Page[e].tagName \in {"HTML", "HEAD", "META", "TITLE", "SCRIPT", "STYLE", "LINK"}

\* The wait of waitForPageStabilization as recordAction sees it: the fixed delay
\* of the branch, or for click and submit a wait of unknown length ({}).
recordAction(action, el, fresh, lastEv) ==
    /\ inflight' = inflight \cup
          {[no |-> nextActionNo, action |-> action, phase |-> "stabilizing",
            at |-> {now + d : d \in SettleDelay(action.type)},
            born |-> now, el |-> el, fresh |-> fresh, lastEv |-> lastEv,
            ready |-> {}]}
    /\ nextActionNo' = nextActionNo + 1

attachListeners ==
    /\ listeners' = EventNames
    /\ docListeners' = [ev \in EventNames |-> docListeners[ev] + 1]

detachListeners ==
    /\ docListeners' = [ev \in EventNames |->
                          IF ev \in listeners THEN docListeners[ev] - 1 ELSE docListeners[ev]]
    /\ listeners' = {}

\* start(sessionId) without its `if (this.isRecording) return`
start_NoGuard(id) ==
    /\ isRecording' = TRUE
    /\ sessionId' = id
    /\ attachListeners

start(id) ==
    IF isRecording
    THEN UNCHANGED <<isRecording, sessionId, listeners, docListeners>>
    ELSE /\ isRecording' = TRUE
         /\ sessionId' = id
         /\ attachListeners

\* stop(); the timers the cleared inputBuffer entries named stay scheduled.
stop ==
    IF ~isRecording
    THEN UNCHANGED <<isRecording, sessionId, listeners, docListeners, inputBuffer, timers>>
    ELSE /\ isRecording' = FALSE
         /\ sessionId' = 0
         /\ detachListeners
         /\ inputBuffer' = [e \in Elements |-> {}]
         /\ timers' = {[t EXCEPT !.stale = TRUE] : t \in timers}

pause == isPaused' = TRUE

resume == isPaused' = FALSE

\* wrappedHandler's gate, for an event kind the document has a handler for
Handled(ev) == docListeners[ev] > 0 /\ ~isPaused /\ isRecording

\* An error leaves the handler of event kind ev: wrappedHandler and the
\* listener catch nothing.
Throw(ev) == uncaught' = uncaught \cup {ev}

handleClick(e) ==
    IF shouldIgnoreElement(e)
    THEN UNCHANGED <<inflight, nextActionNo, uncaught>>
    ELSE IF getElementInfoThrows
    THEN Throw("click") /\ UNCHANGED <<inflight, nextActionNo>>
    ELSE /\ recordAction([type |-> "click", element |-> getElementInfo(e),
                          origin |-> Origin],
                         e, TRUE, {})
         /\ UNCHANGED uncaught

handleKeydown(e, key) ==
    IF key \in {"Tab", "Enter", "Escape"}
    THEN IF getElementInfoThrows
         THEN Throw("keydown") /\ UNCHANGED <<inflight, nextActionNo>>
         ELSE LET action == [type |-> "keypress", key |-> key,
                             element |-> getElementInfo(e), origin |-> Origin] IN
              IF ~isDuplicateAction(action)
              THEN recordAction(action, e, TRUE, {}) /\ UNCHANGED uncaught
              ELSE UNCHANGED <<inflight, nextActionNo, uncaught>>
    ELSE UNCHANGED <<inflight, nextActionNo, uncaught>>

handleInput(e) ==
    IF shouldIgnoreElement(e)
    THEN UNCHANGED <<timers, nextTimerId, inputBuffer, lastInputAt>>
    ELSE /\ timers' = {t \in timers : t.id \notin inputBuffer[e]} \cup
                {[id |-> nextTimerId, kind |-> "input", el |-> e,
                  at |-> now + InputDebounceMs, stale |-> FALSE, origin |-> Origin]}
         /\ nextTimerId' = nextTimerId + 1
         /\ inputBuffer' = [inputBuffer EXCEPT ![e] = {nextTimerId}]
         /\ lastInputAt' = [lastInputAt EXCEPT ![e] = {now}]

\* The callback of handleInput's timer t
inputTimerFired(t) ==
    /\ t \in timers
    /\ t.kind = "input"
    /\ t.at <= now
    /\ timers' = timers \ {t}
    /\ IF getElementInfoThrows
       THEN UNCHANGED <<inflight, nextActionNo, inputBuffer>>
       ELSE /\ recordAction([type |-> "input", element |-> getElementInfo(t.el),
                             value |-> maskSensitiveData(value[t.el], Page[t.el]),
                             inputType |-> Page[t.el].type, origin |-> t.origin],
                            t.el, ~t.stale, lastInputAt[t.el])
            /\ inputBuffer' = [inputBuffer EXCEPT ![t.el] = {}]

\* handleScroll without its clearTimeout(this.scrollTimeout)
handleScroll_NoClear ==
    /\ timers' = timers \cup
            {[id |-> nextTimerId, kind |-> "scroll", el |-> 0,
              at |-> now + ScrollDebounceMs, stale |-> FALSE, origin |-> Origin]}
    /\ nextTimerId' = nextTimerId + 1
    /\ scrollTimeout' = {nextTimerId}
    /\ lastScrollAt' = {now}

handleScroll ==
    /\ timers' = {t \in timers : t.id \notin scrollTimeout} \cup
            {[id |-> nextTimerId, kind |-> "scroll", el |-> 0,
              at |-> now + ScrollDebounceMs, stale |-> FALSE, origin |-> Origin]}
    /\ nextTimerId' = nextTimerId + 1
    /\ scrollTimeout' = {nextTimerId}
    /\ lastScrollAt' = {now}

\* The callback of handleScroll's timer t
scrollTimerFired(t) ==
    /\ t \in timers
    /\ t.kind = "scroll"
    /\ t.at <= now
    /\ timers' = timers \ {t}
    /\ recordAction([type |-> "scroll", element |-> NoElement, viewport |-> scrollY,
                     origin |-> t.origin],
                    0, ~t.stale, lastScrollAt)

\* recordAction after `await this.waitForPageStabilization(action)`: the
\* captureScreenshot message is sent.
stabilized(a) ==
    /\ a \in inflight
    /\ a.phase = "stabilizing"
    /\ a.at = {} \/ Due(a.at)
    /\ inflight' = (inflight \ {a}) \cup
          {[a EXCEPT !.phase = "capturing", !.at = {}, !.ready = {now}]}

\* recordAction after `await this.captureVisibleArea()` with the answer `shot`
\* ("" for null): the recordAction message is sent and lastAction is set.
\* recordAction after the screenshot answer, were the record given up while
\* the recorder is paused
captured_DropsWhenPaused(a, shot) ==
    /\ a \in inflight
    /\ a.phase = "capturing"
    /\ inflight' = inflight \ {a}
    /\ LET action == WithField(WithField(a.action, "screenshot", shot),
                               "sentPaused", isPaused)
       IN IF isPaused
          THEN UNCHANGED <<sent, lastAction>>
          ELSE /\ sent' = Append(sent, action)
               /\ lastAction' = {action}

\* recordAction after the screenshot answer, were the answer not attached
captured_NoScreenshot(a, shot) ==
    /\ a \in inflight
    /\ a.phase = "capturing"
    /\ inflight' = inflight \ {a}
    /\ LET action == WithField(WithField(a.action, "screenshot", <<>>),
                               "sentPaused", isPaused)
       IN /\ sent' = Append(sent, action)
          /\ lastAction' = {action}

\* sentPaused notes whether the recorder was paused when the message left.
captured(a, shot) ==
    /\ a \in inflight
    /\ a.phase = "capturing"
    /\ inflight' = inflight \ {a}
    /\ LET action == WithField(WithField(a.action, "screenshot", shot),
                               "sentPaused", isPaused)
       IN /\ sent' = Append(sent, action)
          /\ lastAction' = {action}

RecInit ==
    /\ value = [e \in Elements |-> <<>>]
    /\ scrollY = 0
    /\ isRecording = FALSE
    /\ isPaused = FALSE
    /\ sessionId = 0
    /\ lastAction = {}
    /\ inputBuffer = [e \in Elements |-> {}]
    /\ scrollTimeout = {}
    /\ listeners = {}
    /\ docListeners = [ev \in EventNames |-> 0]
    /\ timers = {}
    /\ nextTimerId = 1
    /\ inflight = {}
    /\ sent = <<>>
    /\ nextActionNo = 1
    /\ eventCount = 0
    /\ lastInputAt = [e \in Elements |-> {}]
    /\ lastScrollAt = {}

----------------------------------------------------------------------------
(* RecordingSession and RecordingManager *)

NoSession == [id |-> 0, startTime |-> 0, actions |-> <<>>, isPaused |-> FALSE]

\* new RecordingSession(tabId, url); isPaused is not set and reads as false
RecordingSession == [id |-> nextUuid, startTime |-> DateNow, actions |-> <<>>,
                     isPaused |-> FALSE]

\* SessionAddAction were the timestamp taken from the record (0 when it has
\* none) and not from Date.now()
SessionAddAction_KeepsTimestamp(session, action) ==
    LET entry == [f \in DOMAIN action \cup {"id", "timestamp"} |->
                     IF f \in DOMAIN action THEN action[f]
                     ELSE IF f = "id" THEN nextUuid ELSE TimestampOf(action)]
    IN  [session EXCEPT !.actions = Append(@, entry)]

\* { id, timestamp, ...action }: the fields of the action come last
SessionAddAction(session, action) ==
    LET entry == [f \in DOMAIN action \cup {"id", "timestamp"} |->
                     IF f \in DOMAIN action THEN action[f]
                     ELSE IF f = "id" THEN nextUuid ELSE DateNow]
    IN  [session EXCEPT !.actions = Append(@, entry)]

\* session.export()
Export(session) ==
    [id |-> session.id, startTime |-> session.startTime, endTime |-> DateNow,
     duration |-> DateNow - session.startTime, actions |-> session.actions]

\* recordingManager.isRecording(tabId)
isRecordingTab(t) == sessions[t].id # 0

\* A message to a content script: its action, its sessionId (0: none) and the
\* startRecording call whose callback waits for the answer (0: none)
Msg(action, sid, call) == [action |-> action, sessionId |-> sid, call |-> call]

\* chrome.tabs.sendMessage(tabId, msg): the content script followed is PageTab's
SendToTab(t, msg) ==
    toContent' = IF t = PageTab /\ t \in openTabs THEN Append(toContent, msg) ELSE toContent

Ran(op, t, result) ==
    /\ lastOp' = [op |-> op, tab |-> t, result |-> result]
    /\ UNCHANGED stopLog

\* stopRecording(t) has removed the session of t and returns its export
RanStop(t) ==
    /\ lastOp' = [op |-> "stopRecording", tab |-> t, result |-> Export(sessions[t])]
    /\ stopLog' = [idle |-> stopLog.idle \cup {t}, ids |-> stopLog.ids \cup {sessions[t].id}]

\* What a startRecording call has come to: the id of the session it created
\* (0: none), the id of the session it found in the registry when it entered its
\* own (0: none), and whether the tab had a session when the call was made.
Outcome(c) == [sid |-> c.sid, replaced |-> c.replaced, active |-> c.active]

\* startRecording(tabId) up to chrome.tabs.get
startRecording(t) ==
    /\ starts' = starts \cup {[no |-> started + 1, tab |-> t, phase |-> "get",
                               sid |-> 0, at |-> {}, replaced |-> 0,
                               active |-> isRecordingTab(t)]}
    /\ started' = started + 1
    /\ stopLog' = [stopLog EXCEPT !.idle = @ \ {t}]
    /\ UNCHANGED <<sessions, activeTab, nextUuid, toContent, appended, lastOp>>

\* The chrome.tabs.get callback of call c: the session is created and entered
\* in the registry, and the 100 ms timer is set.
tabGot(c) ==
    /\ c \in starts
    /\ c.phase = "get"
    /\ IF c.tab \notin openTabs
       THEN /\ starts' = starts \ {c}
            /\ Ran("startRejected", c.tab, Outcome(c))
            /\ UNCHANGED <<sessions, activeTab, nextUuid>>
       ELSE /\ sessions' = [sessions EXCEPT ![c.tab] = RecordingSession]
            /\ activeTab' = c.tab
            /\ nextUuid' = nextUuid + 1
            /\ starts' = (starts \ {c}) \cup
                  {[c EXCEPT !.phase = "created", !.sid = nextUuid,
                             !.at = {now + StartDelayMs},
                             !.replaced = sessions[c.tab].id]}
            /\ Ran("startRecording", c.tab,
                   Outcome([c EXCEPT !.sid = nextUuid, !.replaced = sessions[c.tab].id]))
    /\ UNCHANGED <<toContent, appended>>

\* The 100 ms timer of call c: the startRecording message is sent.
startTimerFired(c) ==
    /\ c \in starts
    /\ c.phase = "created"
    /\ Due(c.at)
    /\ IF c.tab = PageTab /\ c.tab \in openTabs
       THEN /\ starts' = (starts \ {c}) \cup {[c EXCEPT !.phase = "sent", !.at = {}]}
            /\ toContent' = Append(toContent, Msg("startRecording", c.sid, c.no))
       ELSE /\ \E ok \in {b \in BOOLEAN : b => c.tab \in openTabs} :
                  starts' = (starts \ {c}) \cup
                     {[c EXCEPT !.phase = IF ok THEN "acked" ELSE "nacked", !.at = {}]}
            /\ UNCHANGED toContent
    /\ UNCHANGED <<sessions, activeTab, nextUuid, appended, lastOp, stopLog>>

\* The callback of the startRecording message of call c
startCallback(c) ==
    /\ c \in starts
    /\ c.phase \in {"acked", "nacked"}
    /\ IF c.phase = "nacked"
       THEN /\ sessions' = [sessions EXCEPT ![c.tab] = NoSession]
            /\ Ran("startRejected", c.tab, Outcome(c))
       ELSE /\ Ran("startResolved", c.tab, Outcome(c))
            /\ UNCHANGED sessions
    /\ starts' = starts \ {c}
    /\ UNCHANGED <<activeTab, nextUuid, toContent, appended>>

\* stopRecording(tabId), were the session left in the registry
stopRecording_KeepsSession(t) ==
    IF ~isRecordingTab(t)
    THEN /\ Ran("stopRecording", t, NoSession)
         /\ UNCHANGED <<sessions, activeTab, toContent>>
    ELSE /\ SendToTab(t, Msg("stopRecording", 0, 0))
         /\ RanStop(t)
         /\ UNCHANGED <<sessions, activeTab>>

stopRecording(t) ==
    IF ~isRecordingTab(t)
    THEN /\ Ran("stopRecording", t, NoSession)
         /\ UNCHANGED <<sessions, activeTab, toContent>>
    ELSE /\ SendToTab(t, Msg("stopRecording", 0, 0))
         /\ sessions' = [sessions EXCEPT ![t] = NoSession]
         /\ activeTab' = IF activeTab = t THEN 0 ELSE activeTab
         /\ RanStop(t)

pauseRecording(t) ==
    IF ~isRecordingTab(t)
    THEN /\ Ran("pauseRecording", t, FALSE)
         /\ UNCHANGED <<sessions, toContent>>
    ELSE /\ sessions' = [sessions EXCEPT ![t].isPaused = TRUE]
         /\ SendToTab(t, Msg("pauseRecording", 0, 0))
         /\ Ran("pauseRecording", t, TRUE)

resumeRecording(t) ==
    IF ~isRecordingTab(t)
    THEN /\ Ran("resumeRecording", t, FALSE)
         /\ UNCHANGED <<sessions, toContent>>
    ELSE /\ sessions' = [sessions EXCEPT ![t].isPaused = FALSE]
         /\ SendToTab(t, Msg("resumeRecording", 0, 0))
         /\ Ran("resumeRecording", t, TRUE)

\* addAction with the test of session.isPaused left out
addAction_IgnoresPause(t, action) ==
    IF isRecordingTab(t)
    THEN /\ sessions' = [sessions EXCEPT ![t] = SessionAddAction(@, action)]
         /\ nextUuid' = nextUuid + 1
         /\ appended' = appended + 1
         /\ Ran("addAction", t, TRUE)
    ELSE /\ Ran("addAction", t, FALSE)
         /\ UNCHANGED <<sessions, nextUuid, appended>>

addAction(t, action) ==
    IF isRecordingTab(t) /\ ~sessions[t].isPaused
    THEN /\ sessions' = [sessions EXCEPT ![t] = SessionAddAction(@, action)]
         /\ nextUuid' = nextUuid + 1
         /\ appended' = appended + 1
         /\ Ran("addAction", t, TRUE)
    ELSE /\ Ran("addAction", t, FALSE)
         /\ UNCHANGED <<sessions, nextUuid, appended>>

\* chrome.tabs.onRemoved; the messages on their way to the tab find no receiver
tabRemoved(t) ==
    /\ t \in openTabs
    /\ openTabs' = openTabs \ {t}
    /\ toContent' = IF t = PageTab THEN <<>> ELSE toContent
    /\ starts' = {IF c.tab = t /\ c.phase = "sent" THEN [c EXCEPT !.phase = "nacked"] ELSE c :
                    c \in starts}
    /\ IF isRecordingTab(t)
       THEN /\ sessions' = [sessions EXCEPT ![t] = NoSession]
            /\ activeTab' = IF activeTab = t THEN 0 ELSE activeTab
            /\ RanStop(t)
       ELSE UNCHANGED <<sessions, activeTab, lastOp, stopLog>>

\* chrome.tabs.onUpdated with status 'complete'
tabUpdated(t) ==
    restarts' = IF isRecordingTab(t) THEN restarts \cup {now + RestartDelayMs} ELSE restarts

\* A 500 ms timer of tabs.onUpdated for PageTab
restartTimerFired(d) ==
    /\ d \in restarts
    /\ d <= now
    /\ restarts' = restarts \ {d}
    /\ SendToTab(PageTab, Msg("startRecording", sessions[PageTab].id, 0))

\* The chrome.runtime.onMessage listener of the content script
onMessage(msg) ==
    CASE msg.action = "startRecording" ->
            /\ start(msg.sessionId)
            /\ UNCHANGED <<isPaused, inputBuffer, timers>>
      [] msg.action = "stopRecording" ->
            /\ stop
            /\ UNCHANGED isPaused
      [] msg.action = "pauseRecording" ->
            /\ pause
            /\ UNCHANGED <<isRecording, sessionId, listeners, docListeners, inputBuffer, timers>>
      [] msg.action = "resumeRecording" ->
            /\ resume
            /\ UNCHANGED <<isRecording, sessionId, listeners, docListeners, inputBuffer, timers>>

MgrInit ==
    /\ sessions = [t \in Tabs |-> NoSession]
    /\ activeTab = 0
    /\ nextUuid = 1
    /\ starts = {}
    /\ started = 0
    /\ restarts = {}
    /\ openTabs = Tabs
    /\ toContent = <<>>
    /\ appended = 0
    /\ reloads = 0
    /\ lastOp = [op |-> "none", tab |-> 0, result |-> FALSE]
    /\ stopLog = [idle |-> {}, ids |-> {}]

----------------------------------------------------------------------------
(* Steps of the page context *)

MaskInit ==
    /\ maskVal = <<>>
    /\ maskEl = 1
    /\ maskOut = <<>>

DocInit ==
    /\ hasBody = TRUE
    /\ uncaught = {}

FormInit ==
    /\ formEls = <<>>
    /\ formOut = <<>>

SelInit ==
    /\ selDoc = <<>>
    /\ selTarget = 0
    /\ selOut = <<>>
    /\ xpOut = <<>>

Init ==
    /\ now = 0
    /\ DomInit
    /\ NetInit
    /\ StabInit
    /\ RecInit
    /\ MgrInit
    /\ MaskInit
    /\ DocInit
    /\ SelInit
    /\ FormInit

Stabilize ==
    /\ \E kind \in ActionTypes : waitForPageStabilization(kind)
    /\ UNCHANGED <<outsideWait, timeVars, netVars>>

AnimationFrame ==
    /\ animationFrame
    /\ UNCHANGED <<outsideWait, timeVars, netVars, stabVars>>

Mutation ==
    /\ mutationObserved
    /\ UNCHANGED <<outsideWait, timeVars, netVars, stabVars>>

DomTimeoutFired ==
    /\ Due(timeout)
    /\ done
    /\ StabAfterDOM
    /\ UNCHANGED <<outsideWait, timeVars>>

NetCall ==
    /\ \E c \in Calls, maxWaitTime \in MaxWaits :
          /\ \A b \in Calls : b < c => netState[b] # "idle"
          /\ waitForNetworkIdle(c, maxWaitTime)
    /\ UNCHANGED <<outsideWait, timeVars, domVars, stabVars>>

IdleTimerFired ==
    /\ \E c \in Calls : idleTimerFired(c) /\ StabAfterNet(c)
    /\ UNCHANGED <<outsideWait, timeVars, domVars>>

CeilingTimerFired ==
    /\ \E c \in Calls : ceilingTimerFired(c) /\ StabAfterNet(c)
    /\ UNCHANGED <<outsideWait, timeVars, domVars>>

FetchCalled ==
    /\ fetchCalled
    /\ UNCHANGED <<outsideWait, timeVars, domVars, stabVars>>

XhrOpened ==
    /\ xhrOpened
    /\ UNCHANGED <<outsideWait, timeVars, domVars, stabVars>>

XhrSent ==
    /\ \E q \in BagToSet(requests) : xhrSent(q)
    /\ UNCHANGED <<outsideWait, timeVars, domVars, stabVars>>

RequestSettled ==
    /\ \E q \in BagToSet(requests) : requestSettled(q)
    /\ UNCHANGED <<outsideWait, timeVars, domVars, stabVars>>

SettleDelayElapsed ==
    /\ settleDelayElapsed
    /\ UNCHANGED <<outsideWait, timeVars, domVars, netVars>>

ImageSettled ==
    /\ \E i \in Images : imageSettled(i)
    /\ UNCHANGED <<outsideWait, timeVars, domVars, netVars>>

ImageTimedOut ==
    /\ imageTimedOut
    /\ UNCHANGED <<outsideWait, timeVars, domVars, netVars>>

\* The clock is followed while a wait or one of its timers is pending.
WaitTick ==
    /\ stabPhase \notin {"idle", "done"} \/ AllTimers # {}
    /\ \E step \in WaitSteps : Advance(step, WaitMaxTime)
    /\ UNCHANGED <<outsideWait, domVars, netVars, stabVars>>

NetTick ==
    /\ AllTimers # {}
    /\ \E step \in NetSteps : Advance(step, NetMaxTime)
    /\ UNCHANGED <<outsideWait, domVars, netVars, stabVars>>

\* One readiness wait of one action, with the page mutating, loading and requesting.
WaitNext ==
    \/ Stabilize
    \/ AnimationFrame
    \/ Mutation
    \/ DomTimeoutFired
    \/ IdleTimerFired
    \/ CeilingTimerFired
    \/ FetchCalled
    \/ XhrOpened
    \/ XhrSent
    \/ RequestSettled
    \/ SettleDelayElapsed
    \/ ImageSettled
    \/ ImageTimedOut
    \/ WaitTick

SpecWait == Init /\ [][WaitNext]_vars

\* waitForNetworkIdle calls at any moments, alone or overlapping.
NetNext ==
    \/ NetCall
    \/ IdleTimerFired
    \/ CeilingTimerFired
    \/ FetchCalled
    \/ XhrOpened
    \/ XhrSent
    \/ RequestSettled
    \/ NetTick

SpecNet == Init /\ [][NetNext]_vars

----------------------------------------------------------------------------
(* Steps of the content script: control messages, DOM events, timers *)

ctlVars == <<isRecording, isPaused, sessionId, listeners, docListeners>>

\* chrome.runtime.onMessage: 'startRecording'
RecStart ==
    /\ \E id \in Sessions : start(id)
    /\ UNCHANGED <<value, scrollY, isPaused, lastAction, inputBuffer, scrollTimeout, timers,
                   nextTimerId, inflight, sent, nextActionNo, eventCount, lastInputAt, lastScrollAt>>
    /\ UNCHANGED <<outsideRec, timeVars>>

\* chrome.runtime.onMessage: 'stopRecording'
RecStop ==
    /\ stop
    /\ UNCHANGED <<value, scrollY, isPaused, lastAction, scrollTimeout, nextTimerId,
                   inflight, sent, nextActionNo, eventCount, lastInputAt, lastScrollAt>>
    /\ UNCHANGED <<outsideRec, timeVars>>

\* chrome.runtime.onMessage: 'pauseRecording'
RecPause ==
    /\ pause
    /\ UNCHANGED <<value, scrollY, isRecording, sessionId, listeners, docListeners,
                   lastAction, inputBuffer, scrollTimeout, timers, nextTimerId, inflight,
                   sent, nextActionNo, eventCount, lastInputAt, lastScrollAt>>
    /\ UNCHANGED <<outsideRec, timeVars>>

\* chrome.runtime.onMessage: 'resumeRecording'
RecResume ==
    /\ resume
    /\ UNCHANGED <<value, scrollY, isRecording, sessionId, listeners, docListeners,
                   lastAction, inputBuffer, scrollTimeout, timers, nextTimerId, inflight,
                   sent, nextActionNo, eventCount, lastInputAt, lastScrollAt>>
    /\ UNCHANGED <<outsideRec, timeVars>>

DomEvent ==
    /\ eventCount < MaxEvents
    /\ eventCount' = eventCount + 1

\* A click event is dispatched on element e.
ClickOn(e) ==
    /\ DomEvent
    /\ InDocument(e)
    /\ IF Handled("click") THEN handleClick(e)
       ELSE UNCHANGED <<inflight, nextActionNo, uncaught>>
    /\ UNCHANGED <<value, scrollY, ctlVars, lastAction, inputBuffer, scrollTimeout, timers,
                   nextTimerId, sent, lastInputAt, lastScrollAt>>
    /\ UNCHANGED <<waitVars, mgrVars, maskVars, selVars, formVars, hasBody, timeVars>>

ClickEvent == \E e \in Elements : ClickOn(e)

KeydownEvent ==
    /\ DomEvent
    /\ \E e \in Elements, key \in Keys :
          /\ KeyTarget(e)
          /\ IF Handled("keydown") THEN handleKeydown(e, key)
             ELSE UNCHANGED <<inflight, nextActionNo, uncaught>>
    /\ UNCHANGED <<value, scrollY, ctlVars, lastAction, inputBuffer, scrollTimeout, timers,
                   nextTimerId, sent, lastInputAt, lastScrollAt>>
    /\ UNCHANGED <<waitVars, mgrVars, maskVars, selVars, formVars, hasBody, timeVars>>

\* The user edits a field: its value changes and the input event is dispatched.
InputEvent ==
    /\ DomEvent
    /\ \E e \in Elements, v \in Values :
          /\ IsControl(Page[e])
          /\ InDocument(e)
          /\ v # value[e]
          /\ value' = [value EXCEPT ![e] = v]
          /\ IF Handled("input") THEN handleInput(e)
             ELSE UNCHANGED <<timers, nextTimerId, inputBuffer, lastInputAt>>
    /\ UNCHANGED <<scrollY, lastScrollAt, ctlVars, lastAction, scrollTimeout, inflight, sent, nextActionNo>>
    /\ UNCHANGED <<outsideRec, timeVars>>

ScrollEvent ==
    /\ DomEvent
    /\ \E y \in Offsets :
          /\ y # scrollY
          /\ scrollY' = y
          /\ IF Handled("scroll") THEN handleScroll
             ELSE UNCHANGED <<timers, nextTimerId, scrollTimeout, lastScrollAt>>
    /\ UNCHANGED <<value, ctlVars, lastAction, inputBuffer, inflight, sent, nextActionNo,
                   lastInputAt>>
    /\ UNCHANGED <<outsideRec, timeVars>>

InputTimerFired ==
    /\ \E t \in timers : inputTimerFired(t)
    /\ UNCHANGED <<value, scrollY, ctlVars, lastAction, scrollTimeout, nextTimerId, sent,
                   eventCount, lastInputAt, lastScrollAt>>
    /\ UNCHANGED <<outsideRec, timeVars>>

ScrollTimerFired ==
    /\ \E t \in timers : scrollTimerFired(t)
    /\ UNCHANGED <<value, scrollY, ctlVars, lastAction, inputBuffer, scrollTimeout,
                   nextTimerId, sent, eventCount, lastInputAt, lastScrollAt>>
    /\ UNCHANGED <<outsideRec, timeVars>>

Stabilized ==
    /\ \E a \in inflight : stabilized(a)
    /\ UNCHANGED <<value, scrollY, ctlVars, lastAction, inputBuffer, scrollTimeout, timers,
                   nextTimerId, sent, nextActionNo, eventCount, lastInputAt, lastScrollAt>>
    /\ UNCHANGED <<outsideRec, timeVars>>

Screenshots == {<<"p", "n", "g">>, <<>>}

Captured ==
    /\ \E a \in inflight, shot \in Screenshots : captured(a, shot)
    /\ UNCHANGED <<value, scrollY, ctlVars, inputBuffer, scrollTimeout, timers,
                   nextTimerId, nextActionNo, eventCount, lastInputAt, lastScrollAt>>
    /\ UNCHANGED <<outsideRec, timeVars>>

\* The clock is followed while a timer of the recorder is pending.
KeyTick ==
    /\ AllTimers # {}
    /\ \E step \in KeySteps : Advance(step, KeyMaxTime)
    /\ UNCHANGED <<outsideRec, recVars>>

InputTick ==
    /\ AllTimers # {}
    /\ \E step \in InputSteps : Advance(step, InputMaxTime)
    /\ UNCHANGED <<outsideRec, recVars>>

\* Key presses, clicks and scrolling on a page whose recorder is started,
\* stopped, paused and resumed at any moments.
KeyNext ==
    \/ RecStart
    \/ RecStop
    \/ RecPause
    \/ RecResume
    \/ ClickEvent
    \/ KeydownEvent
    \/ ScrollEvent
    \/ ScrollTimerFired
    \/ Stabilized
    \/ Captured
    \/ KeyTick

SpecKeys == Init /\ [][KeyNext]_vars

\* Scrolling on a page whose recorder is started, stopped, paused and resumed
\* at any moments, up to the moment the scroll actions are built.
ScrollNext ==
    \/ RecStart
    \/ RecStop
    \/ RecPause
    \/ RecResume
    \/ ScrollEvent
    \/ ScrollTimerFired
    \/ KeyTick

SpecScroll == Init /\ [][ScrollNext]_vars

\* Typing on a page whose recorder is started, stopped, paused and resumed at
\* any moments.
InputNext ==
    \/ RecStart
    \/ RecStop
    \/ RecPause
    \/ RecResume
    \/ InputEvent
    \/ InputTimerFired
    \/ Stabilized
    \/ Captured
    \/ InputTick

SpecInput == Init /\ [][InputNext]_vars

----------------------------------------------------------------------------
(* Steps of the background page *)

SampleActions ==
    {[type |-> "click",
      element |-> [selector |-> <<"#", "q">>, text |-> <<>>, tag |-> "INPUT"]],
     [type |-> "scroll", element |-> NoElement, viewport |-> 400]}

CanSend(t) == t = PageTab => Len(toContent) < MaxQueue

\* onMessage 'startRecording'
MgrStart(t) ==
    /\ started < MaxStarts
    /\ startRecording(t)
    /\ UNCHANGED <<restarts, openTabs, reloads>>
    /\ UNCHANGED <<outsideMgr, timeVars>>

MgrTabGot ==
    /\ \E c \in starts : tabGot(c)
    /\ UNCHANGED <<started, restarts, openTabs, reloads>>
    /\ UNCHANGED <<outsideMgr, timeVars>>

MgrStartTimerFired ==
    /\ \E c \in starts : startTimerFired(c)
    /\ UNCHANGED <<started, restarts, openTabs, reloads>>
    /\ UNCHANGED <<outsideMgr, timeVars>>

MgrStartCallback ==
    /\ \E c \in starts : startCallback(c)
    /\ UNCHANGED <<started, restarts, openTabs, reloads>>
    /\ UNCHANGED <<outsideMgr, timeVars>>

\* onMessage 'stopRecording'
MgrStop(t) ==
    /\ CanSend(t)
    /\ stopRecording(t)
    /\ UNCHANGED <<nextUuid, starts, started, restarts, openTabs, appended, reloads>>
    /\ UNCHANGED <<outsideMgr, timeVars>>

\* onMessage 'pauseRecording'
MgrPause(t) ==
    /\ CanSend(t)
    /\ pauseRecording(t)
    /\ UNCHANGED <<activeTab, nextUuid, starts, started, restarts, openTabs, appended, reloads>>
    /\ UNCHANGED <<outsideMgr, timeVars>>

\* onMessage 'resumeRecording'
MgrResume(t) ==
    /\ CanSend(t)
    /\ resumeRecording(t)
    /\ UNCHANGED <<activeTab, nextUuid, starts, started, restarts, openTabs, appended, reloads>>
    /\ UNCHANGED <<outsideMgr, timeVars>>

\* onMessage 'recordAction' with a record sent from some tab
MgrRecordAction ==
    /\ \E t \in Tabs, action \in SampleActions :
          /\ addAction(t, action)
          /\ appended' <= MaxAppends
    /\ UNCHANGED <<activeTab, starts, started, restarts, openTabs, toContent, reloads>>
    /\ UNCHANGED <<outsideMgr, timeVars>>

MgrTabRemoved ==
    /\ \E t \in OtherTabs : tabRemoved(t)
    /\ UNCHANGED <<nextUuid, started, restarts, appended, reloads>>
    /\ UNCHANGED <<outsideMgr, timeVars>>

\* The content script of PageTab takes the next message; a startRecording
\* message of a call is answered.
ContentReceives ==
    /\ Len(toContent) > 0
    /\ PageTab \in openTabs
    /\ onMessage(Head(toContent))
    /\ toContent' = Tail(toContent)
    /\ starts' = {IF c.phase = "sent" /\ c.tab = PageTab /\ c.no = Head(toContent).call
                  THEN [c EXCEPT !.phase = "acked"] ELSE c : c \in starts}
    /\ UNCHANGED <<value, scrollY, lastAction, scrollTimeout, nextTimerId, inflight, sent,
                   nextActionNo, eventCount, lastInputAt, lastScrollAt>>
    /\ UNCHANGED <<sessions, activeTab, nextUuid, started, restarts, openTabs, appended,
                   reloads, lastOp, stopLog>>
    /\ UNCHANGED <<waitVars, timeVars, maskVars, selVars, formVars, docVars>>

\* onMessage 'recordAction' with the next record the content script has sent
PipeRecordAction ==
    /\ Len(sent) > 0
    /\ addAction(PageTab, Head(sent))
    /\ appended' <= MaxAppends
    /\ sent' = Tail(sent)
    /\ UNCHANGED <<value, scrollY, ctlVars, lastAction, inputBuffer, scrollTimeout, timers,
                   nextTimerId, inflight, nextActionNo, eventCount, lastInputAt, lastScrollAt>>
    /\ UNCHANGED <<activeTab, starts, started, restarts, openTabs, toContent, reloads>>
    /\ UNCHANGED <<waitVars, timeVars, maskVars, selVars, formVars, docVars>>

\* The page of PageTab is loaded anew: a new document and a new content script,
\* and tabs.onUpdated reports 'complete'.
PageReload ==
    /\ PageTab \in openTabs
    /\ reloads < MaxReloads
    /\ reloads' = reloads + 1
    /\ value' = [e \in Elements |-> <<>>]
    /\ scrollY' = 0
    /\ isRecording' = FALSE
    /\ isPaused' = FALSE
    /\ sessionId' = 0
    /\ lastAction' = {}
    /\ inputBuffer' = [e \in Elements |-> {}]
    /\ scrollTimeout' = {}
    /\ listeners' = {}
    /\ docListeners' = [ev \in EventNames |-> 0]
    /\ timers' = {}
    /\ inflight' = {}
    /\ tabUpdated(PageTab)
    /\ UNCHANGED <<nextTimerId, sent, nextActionNo, eventCount, lastInputAt, lastScrollAt>>
    /\ UNCHANGED <<sessions, activeTab, nextUuid, starts, started, openTabs, toContent,
                   appended, lastOp, stopLog>>
    /\ hasBody' = TRUE
    /\ UNCHANGED <<waitVars, timeVars, maskVars, selVars, formVars, uncaught>>

RestartTimerFired ==
    /\ CanSend(PageTab)
    /\ \E d \in restarts : restartTimerFired(d)
    /\ UNCHANGED <<sessions, activeTab, nextUuid, starts, started, openTabs, appended,
                   reloads, lastOp, stopLog>>
    /\ UNCHANGED <<outsideMgr, timeVars>>

MgrTick ==
    /\ AllTimers # {}
    /\ \E step \in MgrSteps : Advance(step, MgrMaxTime)
    /\ UNCHANGED <<waitVars, recVars, mgrVars, maskVars, selVars, formVars, docVars>>

PipeStart ==
    /\ started < MaxPipeStarts
    /\ MgrStart(PageTab)

PipeClick ==
    /\ eventCount < MaxPipeEvents
    /\ ClickEvent

PipeTick ==
    /\ AllTimers # {}
    /\ \E step \in PipeSteps : Advance(step, PipeMaxTime)
    /\ UNCHANGED <<waitVars, recVars, mgrVars, maskVars, selVars, formVars, docVars>>

\* The popup's requests for the tabs whose content scripts are not followed,
\* records arriving from them, and these tabs closing.
MgrNext ==
    \/ \E t \in OtherTabs : MgrStart(t)
    \/ MgrTabGot
    \/ MgrStartTimerFired
    \/ MgrStartCallback
    \/ \E t \in OtherTabs : MgrStop(t)
    \/ \E t \in OtherTabs : MgrPause(t)
    \/ \E t \in OtherTabs : MgrResume(t)
    \/ MgrRecordAction
    \/ MgrTabRemoved
    \/ MgrTick

SpecMgr == Init /\ [][MgrNext]_vars

\* One tab from the popup's requests to the session's records: the background
\* page, the messages both ways, the content script and clicks on the page.
PipeNext ==
    \/ PipeStart
    \/ MgrTabGot
    \/ MgrStartTimerFired
    \/ MgrStartCallback
    \/ ContentReceives
    \/ MgrStop(PageTab)
    \/ MgrPause(PageTab)
    \/ MgrResume(PageTab)
    \/ PipeClick
    \/ Stabilized
    \/ Captured
    \/ PipeRecordAction
    \/ PageReload
    \/ RestartTimerFired
    \/ PipeTick

SpecPipe == Init /\ [][PipeNext]_vars

\* One session on the page's tab, paused and resumed at any moments while the
\* records of clicks on the page are on their way to it.
DropStart ==
    /\ started = 0
    /\ MgrStart(PageTab)

DropNext ==
    \/ DropStart
    \/ MgrTabGot
    \/ MgrStartTimerFired
    \/ MgrStartCallback
    \/ ContentReceives
    \/ MgrPause(PageTab)
    \/ MgrResume(PageTab)
    \/ PipeClick
    \/ Stabilized
    \/ Captured
    \/ PipeRecordAction
    \/ PipeTick

SpecDrop == Init /\ [][DropNext]_vars

\* The popup's start, stop, pause and resume requests for the page's tab, as
\* often as the popup sends them, and the clicks the recorder sees meanwhile
CtlClick ==
    /\ eventCount < MaxCtlEvents
    /\ ClickEvent

CtlTick ==
    /\ AllTimers # {}
    /\ \E step \in CtlSteps : Advance(step, CtlMaxTime)
    /\ UNCHANGED <<waitVars, recVars, mgrVars, maskVars, selVars, formVars, docVars>>

CtlNext ==
    \/ MgrStart(PageTab)
    \/ MgrTabGot
    \/ MgrStartTimerFired
    \/ MgrStartCallback
    \/ ContentReceives
    \/ MgrStop(PageTab)
    \/ MgrPause(PageTab)
    \/ MgrResume(PageTab)
    \/ CtlClick
    \/ Stabilized
    \/ Captured
    \/ PipeRecordAction
    \/ CtlTick

SpecCtl == Init /\ [][CtlNext]_vars

\* One recording at a time, on any tab: the popup's requests, the records the
\* content scripts send, and the closing of a tab whose page is not followed
SessStart ==
    /\ started < MaxPipeStarts
    /\ starts = {}
    /\ \E t \in Tabs : MgrStart(t)

SessNext ==
    \/ SessStart
    \/ MgrTabGot
    \/ MgrStartTimerFired
    \/ MgrStartCallback
    \/ ContentReceives
    \/ \E t \in Tabs : MgrStop(t)
    \/ \E t \in Tabs : MgrPause(t)
    \/ \E t \in Tabs : MgrResume(t)
    \/ MgrRecordAction
    \/ MgrTabRemoved
    \/ MgrTick

SpecSess == Init /\ [][SessNext]_vars

\* Sessions started one after another on any tab, stopped, paused and resumed,
\* with records arriving from the content scripts as the clock moves on
StampRecordAction ==
    /\ \E t \in Tabs, action \in SampleActions :
          /\ addAction(t, action)
          /\ appended' <= MaxStamped
    /\ UNCHANGED <<activeTab, starts, started, restarts, openTabs, toContent, reloads>>
    /\ UNCHANGED <<outsideMgr, timeVars>>

StampTick ==
    /\ \E step \in MgrSteps : Advance(step, StampMaxTime)
    /\ UNCHANGED <<waitVars, recVars, mgrVars, maskVars, selVars, formVars, docVars>>

StampNext ==
    \/ SessStart
    \/ MgrTabGot
    \/ MgrStartTimerFired
    \/ MgrStartCallback
    \/ \E t \in Tabs : MgrStop(t)
    \/ \E t \in Tabs : MgrPause(t)
    \/ \E t \in Tabs : MgrResume(t)
    \/ StampRecordAction
    \/ StampTick

SpecStamp == Init /\ [][StampNext]_vars

\* The recorder alone with the control messages it gets and the clicks and
\* key presses on the page
CtlKeydown ==
    /\ eventCount < MaxCtlEvents
    /\ KeydownEvent

PauseNext ==
    \/ RecStart
    \/ RecStop
    \/ RecPause
    \/ RecResume
    \/ CtlClick
    \/ CtlKeydown
    \/ Stabilized
    \/ Captured
    \/ KeyTick

SpecPause == Init /\ [][PauseNext]_vars

\* The end-to-end scenario: a session is started on the page's tab, then one
\* click is dispatched on the button #submit-btn, and every screenshot request
\* is answered with an image.  Meanwhile the popup starts, stops, pauses and
\* resumes recordings on the other tabs.
SubmitBtn == CHOOSE e \in Elements : Page[e].id = SubmitBtnId

E2EStart ==
    /\ started = 0
    /\ MgrStart(PageTab)

\* The click of the scenario, after startRecording has resolved for the tab
E2EClick ==
    /\ eventCount = 0
    /\ isRecordingTab(PageTab)
    /\ \A c \in starts : c.tab # PageTab
    /\ ClickOn(SubmitBtn)

E2ECaptured ==
    /\ \E a \in inflight, shot \in Screenshots \ {<<>>} : captured(a, shot)
    /\ UNCHANGED <<value, scrollY, ctlVars, inputBuffer, scrollTimeout, timers,
                   nextTimerId, nextActionNo, eventCount, lastInputAt, lastScrollAt>>
    /\ UNCHANGED <<outsideRec, timeVars>>

\* A recording is started on another tab, no start being under way.
E2EOtherStart ==
    /\ starts = {}
    /\ \E t \in OtherTabs : MgrStart(t)

E2ENext ==
    \/ E2EStart
    \/ E2EOtherStart
    \/ MgrTabGot
    \/ MgrStartTimerFired
    \/ MgrStartCallback
    \/ ContentReceives
    \/ \E t \in OtherTabs : MgrStop(t)
    \/ \E t \in OtherTabs : MgrPause(t)
    \/ \E t \in OtherTabs : MgrResume(t)
    \/ E2EClick
    \/ Stabilized
    \/ E2ECaptured
    \/ PipeRecordAction
    \/ CtlTick

\* Timers that are due fire, callbacks and messages are delivered, the
\* readiness wait of the click ends, and the capture collaborator answers.
E2EFairness ==
    /\ WF_vars(MgrTabGot)
    /\ WF_vars(MgrStartTimerFired)
    /\ WF_vars(MgrStartCallback)
    /\ WF_vars(ContentReceives)
    /\ WF_vars(Stabilized)
    /\ WF_vars(E2ECaptured)
    /\ WF_vars(PipeRecordAction)
    /\ WF_vars(CtlTick)

SpecE2E == Init /\ [][E2ENext]_vars /\ E2EFairness

\* A script of the page removes document.body.
BodyRemoved ==
    /\ hasBody
    /\ hasBody' = FALSE
    /\ UNCHANGED <<timeVars, waitVars, recVars, mgrVars, maskVars, selVars, formVars, uncaught>>

\* Clicks and key presses on a page that may lose its body
BodyNext ==
    \/ RecStart
    \/ RecStop
    \/ BodyRemoved
    \/ ClickEvent
    \/ KeydownEvent
    \/ Stabilized
    \/ Captured
    \/ KeyTick

SpecBody == Init /\ [][BodyNext]_vars

\* The same steps with the scheduling the page gives them: a timer that is due
\* fires, the clock moves on, and a recordAction call whose wait is over goes
\* on to its screenshot request.  The answer to that request is the step of
\* the background page and of chrome.tabs.captureVisibleTab: the recorder
\* sets no timer of its own for it, and nothing here obliges it to come.
ShotFairness ==
    /\ WF_vars(Stabilized)
    /\ WF_vars(KeyTick)

SpecShot == Init /\ [][PauseNext]_vars /\ ShotFairness

----------------------------------------------------------------------------
(* Steps of masking: maskSensitiveData applied to a value, then to its result *)

\* The characters of the values masked exhaustively: a letter, '@', '.', and
\* a character no part of an address may hold.
Alphabet == {"a", "@", ".", "*"}
Strings(n) == UNION {[1..k -> Alphabet] : k \in 0..n}

Hunter2 == <<"h", "u", "n", "t", "e", "r", "2">>
ContactJane ==
    <<"c", "o", "n", "t", "a", "c", "t", " ", "j", "a", "n", "e", ".", "d",
    "o", "e", "@", "e", "x", "a", "m", "p", "l", "e", ".", "c", "o", "m",
    " ", "p", "l", "e", "a", "s", "e">>
TwoEmails == <<"a", "@", "b", ".", "i", "o", " ", "c", "@", "d", ".", "i", "o">>
ChainedEmails == <<"a", "@", "b", ".", "i", "o", "@", "c", ".", "i", "o">>
Examples == {Hunter2, ContactJane, TwoEmails, ChainedEmails}

MaskInputs == Strings(MaxValueLen) \cup Examples

InitMask ==
    /\ now = 0
    /\ DomInit
    /\ NetInit
    /\ StabInit
    /\ RecInit
    /\ MgrInit
    /\ maskVal \in MaskInputs
    /\ maskEl \in DOMAIN Fields
    /\ maskOut = <<>>
    /\ DocInit
    /\ SelInit
    /\ FormInit

Mask ==
    /\ Len(maskOut) = 0
    /\ maskOut' = <<maskSensitiveData(maskVal, Fields[maskEl])>>
    /\ UNCHANGED <<maskVal, maskEl, outsideMask>>

MaskAgain ==
    /\ Len(maskOut) = 1
    /\ maskOut' = Append(maskOut, maskSensitiveData(maskOut[1], Fields[maskEl]))
    /\ UNCHANGED <<maskVal, maskEl, outsideMask>>

MaskNext ==
    \/ Mask
    \/ MaskAgain

SpecMask == InitMask /\ [][MaskNext]_vars

----------------------------------------------------------------------------
(* Steps of locator derivation: getSelector and getXPath applied to an element
   of a document *)

Skeleton ==
    <<Element(<<"H", "T", "M", "L">>, <<>>, <<>>, <<>>, <<>>, 0),
      Element(<<"H", "E", "A", "D">>, <<>>, <<>>, <<>>, <<>>, 1),
      Element(<<"B", "O", "D", "Y">>, <<>>, <<>>, <<>>, <<>>, 1)>>

\* The elements a body is filled with: with and without id, data-testid,
\* aria-label and classes, the ids and classes plain ("x", "c") or holding
\* a character that has a meaning of its own in a selector ("x.c", "1", "m:c")
Profiles ==
    <<Element(<<"P">>, <<>>, <<>>, <<>>, <<>>, 0),
      Element(<<"P">>, <<"x">>, <<>>, <<>>, <<>>, 0),
      Element(<<"P">>, <<"x", ".", "c">>, <<>>, <<>>, <<>>, 0),
      Element(<<"P">>, <<"1">>, <<>>, <<>>, <<>>, 0),
      Element(<<"P">>, <<>>, <<>>, <<>>, <<<<"c">>>>, 0),
      Element(<<"P">>, <<>>, <<>>, <<>>, <<<<"c">>, Hover>>, 0),
      Element(<<"P">>, <<"x">>, <<"t">>, <<"l">>, <<<<"c">>>>, 0),
      Element(<<"P">>, <<>>, <<"t">>, <<>>, <<>>, 0),
      Element(<<"P">>, <<>>, <<>>, <<"l">>, <<>>, 0),
      Element(<<"P">>, <<>>, <<>>, <<>>, <<<<"m", ":", "c">>>>, 0),
      Element(<<"A">>, <<>>, <<>>, <<>>, <<<<"c">>>>, 0)>>

\* The positions are in document order: every element between an element and
\* its parent is a descendant of that parent.
InDocumentOrder(doc) ==
    \A k \in DOMAIN doc :
        /\ doc[k].parent < k
        /\ \A j \in (doc[k].parent + 1)..(k - 1) : IsDescendant(doc, j, doc[k].parent)

Fillings ==
    [1..MaxContent -> (DOMAIN Profiles) \X (Len(Skeleton)..(Len(Skeleton) + MaxContent - 1))]

Filled(f) ==
    Skeleton \o [i \in 1..MaxContent |-> [Profiles[f[i][1]] EXCEPT !.parent = f[i][2]]]

Documents == {doc \in {Filled(f) : f \in Fillings} : InDocumentOrder(doc)}

InitSel ==
    /\ now = 0
    /\ DomInit
    /\ NetInit
    /\ StabInit
    /\ RecInit
    /\ MgrInit
    /\ MaskInit
    /\ DocInit
    /\ FormInit
    /\ selDoc \in Documents
    /\ selTarget \in DOMAIN Skeleton \cup (Len(Skeleton) + 1)..(Len(Skeleton) + MaxContent)
    /\ selOut = <<>>
    /\ xpOut = <<>>

DeriveSelector ==
    /\ selOut = <<>>
    /\ selOut' = <<getSelector(selDoc, selTarget)>>
    /\ UNCHANGED <<selDoc, selTarget, xpOut, outsideSel>>

DeriveXPath ==
    /\ xpOut = <<>>
    /\ xpOut' = <<getXPath(selDoc, selTarget)>>
    /\ UNCHANGED <<selDoc, selTarget, selOut, outsideSel>>

SelNext ==
    \/ DeriveSelector
    \/ DeriveXPath

SpecSel == InitSel /\ [][SelNext]_vars

----------------------------------------------------------------------------
(* Steps of form capture: extractFormData applied to a form *)

ControlNames  == {<<>>, <<"a">>, <<"c", "v", "v">>}
ControlTypes  == {"text", "password", "checkbox", "radio"}
ControlValues == {<<"h", "i">>, <<"a", "@", "b", ".", "i", "o">>}

\* Only a checkbox or a radio button is ever checked.
FormControls ==
    {Control(n, t, d, c, v) :
        n \in ControlNames, t \in ControlTypes, d \in BOOLEAN, c \in BOOLEAN,
        v \in ControlValues}
    \ {x \in [name : ControlNames, type : {"text", "password"}, disabled : BOOLEAN,
               checked : {TRUE}, value : ControlValues, id : {<<>>},
               className : {<<>>}] : TRUE}

Forms == UNION {[1..k -> FormControls] : k \in 1..MaxControls}

InitForm ==
    /\ now = 0
    /\ DomInit
    /\ NetInit
    /\ StabInit
    /\ RecInit
    /\ MgrInit
    /\ MaskInit
    /\ DocInit
    /\ SelInit
    /\ formEls \in Forms
    /\ formOut = <<>>

\* handleSubmit: formData: this.extractFormData(element)
ExtractFormData ==
    /\ formOut = <<>>
    /\ formOut' = <<extractFormData(formEls)>>
    /\ UNCHANGED <<formEls, outsideForm>>

FormNext == ExtractFormData

SpecForm == InitForm /\ [][FormNext]_vars

----------------------------------------------------------------------------
(* Readiness-wait claims *)

\* C2: waitForDOMStability resolves no later than 1000 ms after it is called,
\* whatever the schedule of DOM mutations.
C2_DomWaitWithinCeiling ==
    domState = "waiting" => now - domStart <= DomCeilingMs

SavedHooks(c) == <<originalFetch[c], XHROpen[c], XHRSend[c]>>

\* C3: once the ceiling timer of every waitForNetworkIdle call made so far has
\* fired, window.fetch and XMLHttpRequest.prototype.open/send are the functions
\* installed before the first call.
C3_HooksRestoredAfterAllCeilings ==
    (/\ \E c \in Calls : netState[c] # "idle"
     /\ \A c \in Calls : netState[c] # "idle" => ceilTimer[c] = {})
    => <<fetchHook, xhrOpenHook, xhrSendHook>> = <<Native, Native, Native>>

\* C4: when the promise of waitForNetworkIdle resolves, on either exit path, the
\* three transport hooks are the values they had when the call began.
C4_HooksRestoredAtResolve ==
    \A c \in Calls : netState[c] = "resolved" => hooksAtResolve[c] = SavedHooks(c)

\* C9: waitForPageStabilization returns within the bound of its branch, for every
\* action kind: 1000 + 1000 ms for click and submit, 300 ms for input, 500 + 500 ms
\* for scroll, 200 ms otherwise.
StabCeiling(kind) ==
    IF kind \in {"click", "submit"} THEN DomCeilingMs + ClickNetWaitMs
    ELSE IF kind \in {"input", "change"} THEN InputSettleMs
    ELSE IF kind = "scroll" THEN ScrollSettleMs + ImageCapMs
    ELSE DefaultSettleMs

C9_StabilizationBounded ==
    stabPhase \notin {"idle", "done"} => now - stabStart <= StabCeiling(stabKind)

\* C34: a waitForNetworkIdle call that resolves before its ceiling resolves
\* with none of the requests it has counted in flight: in the step that
\* resolves it earlier than maxWaitTime after the call, its count is zero.
C34_Step ==
    \A c \in Calls :
        (/\ netState[c] = "waiting"
         /\ netState'[c] = "resolved"
         /\ now < netStart[c] + netMaxWait[c])
        => pendingRequests[c] = 0

C34_NoEarlyResolveWhileInFlight == [][C34_Step]_vars

\* C10: waitForNetworkIdle(maxWaitTime) resolves no later than maxWaitTime after
\* the call, also with requests in flight that never settle.
C10_NetIdleWithinCeiling ==
    \A c \in Calls : netState[c] = "waiting" => now - netStart[c] <= netMaxWait[c]

\* A call resolved by its ceiling timer, at the ceiling.
C10_ResolvedAtCeiling ==
    \E c \in Calls :
        /\ netState[c] = "resolved"
        /\ hooksAtResolve[c] = SavedHooks(c)
        /\ now = netStart[c] + netMaxWait[c]

----------------------------------------------------------------------------
(* Recorder claims *)

\* C1: two keypress actions with the same key and the same target selector are
\* never both recorded when their key events are less than 100 ms apart.
C1_DuplicateKeypressSuppressed ==
    \A a, b \in inflight :
        (/\ a.no # b.no
         /\ a.action.type = "keypress"
         /\ b.action.type = "keypress"
         /\ a.action.key = b.action.key
         /\ a.action.element.selector = b.action.element.selector
         /\ a.born <= b.born)
        => b.born - a.born >= DedupWindowMs

\* C8: an input action is emitted only when 500 ms have passed since the last
\* input event on its element, so a burst of input events less than 500 ms
\* apart on one element yields a single action, after its last event.
C8_InputEmittedAfterQuiet ==
    \A r \in inflight :
        r.action.type = "input" => r.lastEv = {r.born - InputDebounceMs}

\* A string made of mask characters only
OnlyStars(str) == \A i \in 1..Len(str) : str[i] = "*"

\* C11: no action handed on for an event on a password-type field carries the
\* field's value unmasked, neither as the action's value nor as the text of
\* its target descriptor.
C11_PasswordValueNeverRecorded ==
    \A i \in 1..Len(sent) :
        \A e \in Elements :
            (Page[e].type = "password" /\ sent[i].element.selector = Page[e].selector)
            => /\ OnlyStars(sent[i].element.text)
               /\ sent[i].type = "input" => OnlyStars(sent[i].value)

\* C19: the recordAction messages, which the session appends in the order
\* sent, leave in the order in which the readiness waits completed: when the
\* message of an action is sent, no action whose wait completed earlier is
\* still waiting for its screenshot.
C19_Step ==
    \A b \in inflight \ inflight' :
        \A a \in inflight \cap inflight' :
            (/\ Len(sent') = Len(sent) + 1
             /\ b.phase = "capturing"
             /\ a.phase = "capturing")
            => \A ra \in a.ready, rb \in b.ready : rb <= ra

C19_SentInReadinessOrder == [][C19_Step]_vars

\* C20: nothing cancels a readiness wait in flight, pause least of all: a step
\* that pauses or resumes the recorder leaves the actions in flight and the
\* messages sent as they were, and an action in flight, whether the recorder
\* is paused or not, only moves on from its wait to the screenshot request and
\* from there to the recordAction message.
C20_Step ==
    /\ isPaused' # isPaused => inflight' = inflight /\ sent' = sent
    /\ \A b \in inflight \ inflight' :
          \/ /\ b.phase = "stabilizing"
             /\ \E c \in inflight' \ inflight :
                    c.no = b.no /\ c.phase = "capturing" /\ c.action = b.action
             /\ sent' = sent
          \/ /\ b.phase = "capturing"
             /\ Len(sent') = Len(sent) + 1
             /\ SubSeq(sent', 1, Len(sent)) = sent
             /\ sent'[Len(sent')].type = b.action.type
             /\ sent'[Len(sent')].element = b.action.element
             /\ sent'[Len(sent')].sentPaused = isPaused

C20_PauseCancelsNoWait == [][C20_Step]_vars

\* C20 witness: the recordAction message of a click, which only an unpaused
\* recorder takes up, has been sent while the recorder was paused.
C20_SentWhilePaused ==
    \E i \in 1..Len(sent) : sent[i].type = "click" /\ sent[i].sentPaused

\* C39: whatever start, stop, pause and resume calls the recorder has got,
\* each of the ten event kinds has at most one listener on the document, the
\* listeners are attached exactly when isRecording is true, and a step that
\* leaves the recorder recording, a start while recording among them, changes
\* neither the listeners nor the sessionId.
C39_ListenersFollowRecording ==
    /\ [](/\ Cardinality(EventNames) = 10
          /\ \A ev \in EventNames :
                /\ docListeners[ev] <= 1
                /\ docListeners[ev] = 1 <=> isRecording
          /\ listeners = IF isRecording THEN EventNames ELSE {})
    /\ [][(isRecording /\ isRecording')
            => /\ listeners' = listeners
               /\ docListeners' = docListeners
               /\ sessionId' = sessionId]_vars

\* C39 witness: the recorder has been started, has taken up an event and has
\* been paused: it is recording, with one listener for each event kind.
C39_PausedWithListeners ==
    /\ isRecording
    /\ isPaused
    /\ sessionId # 0
    /\ nextActionNo > 1
    /\ \A ev \in EventNames : docListeners[ev] = 1

\* C24: no error propagates out of an event handler: the handler returns
\* normally also when the locator of the event's target cannot be derived.
C24_HandlersNeverThrow == uncaught = {}

\* C23: no action with a target is built for an event whose target lies
\* within the recorder's own subtree, #demo-recorder-overlay.
C23_OverlayEventsIgnored ==
    \A r \in inflight : r.el \in Elements => ~Page[r.el].inOverlay

\* C22: no input-debounce timer and no scroll-debounce timer that was
\* scheduled before a stop() of the recorder emits an action: stop cancels
\* every pending debounced emission.
C22_StopCancelsDebounce ==
    \A r \in inflight : r.action.type \in {"input", "scroll"} => r.fresh

\* The recordAction call number n has sent its screenshot request
AwaitsScreenshot(n) == \E a \in inflight : a.no = n /\ a.phase = "capturing"

\* The recordAction call number n has sent its recordAction message: under
\* the steps of the recorder a call leaves `inflight` only by sending it
Forwarded(n) == n < nextActionNo /\ \A a \in inflight : a.no # n

\* C21: every action whose readiness wait has completed is eventually
\* forwarded, whether the screenshot request is answered with an image, with a
\* failure, or never.
C21_ForwardedWhateverTheScreenshot ==
    \A n \in 1..MaxEvents : AwaitsScreenshot(n) ~> Forwarded(n)

\* The session of the page's tab holds exactly one action: a click on
\* #submit-btn with a screenshot
OneClickRecorded ==
    /\ Len(sessions[PageTab].actions) = 1
    /\ sessions[PageTab].actions[1].type = "click"
    /\ sessions[PageTab].actions[1].element.selector = <<"#">> \o SubmitBtnId
    /\ sessions[PageTab].actions[1].screenshot # <<>>

C31_ChangeSettlesLikeInput ==
    stabPhase = "done" =>
        /\ stabKind \in ChangeActionTypes \cup {"input"} =>
              /\ stabDoneAt - stabStart = InputSettleMs
              /\ domState = "idle"
              /\ \A c \in Calls : netState[c] = "idle"
        /\ stabDoneAt - stabStart = DefaultSettleMs =>
              stabKind \in {"dblclick", "keypress", "hover", "focus", "blur"}

\* C29: once waitForDOMStability has resolved, its observer is not connected,
\* its timer is not pending and its animation-frame callback, which would
\* create an observer, is not outstanding, whichever of the animation-frame
\* callback and the ceiling timer came first.
C29_DomWaitLeavesNothing ==
    domState = "resolved" =>
        /\ observer # "connected"
        /\ timeout = {}
        /\ ~rafPending

\* The scroll actions that have been built and not yet handed on
ScrollActions == {r \in inflight : r.action.type = "scroll"}

\* C28: a burst of scroll events less than 200 ms apart yields exactly one
\* scroll action, built 200 ms after the last event of the burst and carrying
\* the viewport offset of the moment it is built.
C28_ScrollDebounce ==
    /\ [](\A r \in ScrollActions :
            /\ r.lastEv = {r.born - ScrollDebounceMs}
            /\ \A q \in ScrollActions : q.lastEv = r.lastEv => q = r)
    /\ [][\A r \in ScrollActions' \ inflight :
             r.phase = "stabilizing" => r.action.viewport = scrollY']_vars

\* Two scroll events less than 200 ms apart, the second one having moved the
\* viewport, have produced a single scroll action.
C28_BurstOfTwo ==
    /\ nextTimerId = 3
    /\ timers = {}
    /\ \E r \in ScrollActions :
          /\ ScrollActions = {r}
          /\ r.born < 2 * ScrollDebounceMs
          /\ r.lastEv = {r.born - ScrollDebounceMs}
          /\ r.action.viewport = scrollY
    /\ \A i \in 1..Len(sent) : sent[i].type # "scroll"

----------------------------------------------------------------------------
(* Locator claims *)

\* No other element of the document has the id of element e
UniqueId(doc, e) == \A k \in DOMAIN doc : k # e => doc[k].id # doc[e].id

\* C26: for an element with a unique id, getSelector returns "#" and the id,
\* whatever other attributes the element has, and that selector resolves to
\* exactly one element, the element itself.
C26_IdSelectorResolves ==
    (/\ selOut # <<>>
     /\ selDoc[selTarget].id # <<>>
     /\ UniqueId(selDoc, selTarget))
    => /\ ~selOut[1].threw
       /\ selOut[1].selector = <<"#">> \o selDoc[selTarget].id
       /\ querySelectorAll(selDoc, selOut[1].selector)
            = [threw |-> FALSE, nodes |-> {selTarget}]

\* tag.class1.class2 of an element, its transient classes discarded (<<>>: it
\* has no other class)
ClassSelector(el) ==
    LET kept == SelectSeq(el.classList, NotTransient) IN
    IF kept = <<>> THEN <<>>
    ELSE toLowerCase(el.tagName) \o <<".">> \o Join(kept, <<".">>)

\* C27: for an element without id, data-testid and aria-label, getSelector
\* returns the class-based selector only when that selector matches exactly
\* one element of the document; otherwise it returns the structural path, and
\* the path, resolved against the same document, selects exactly the element.
C27_ClassOrPathSelector ==
    (/\ selOut # <<>>
     /\ selDoc[selTarget].id = <<>>
     /\ selDoc[selTarget].testid = <<>>
     /\ selDoc[selTarget].aria = <<>>)
    => LET byClass == ClassSelector(selDoc[selTarget])
           matched == querySelectorAll(selDoc, byClass)
       IN  /\ ~selOut[1].threw
           /\ IF byClass # <<>> /\ ~matched.threw /\ Cardinality(matched.nodes) = 1
              THEN selOut[1].selector = byClass
              ELSE /\ selOut[1].selector = getPathSelector(selDoc, selTarget)
                   /\ querySelectorAll(selDoc, selOut[1].selector)
                        = [threw |-> FALSE, nodes |-> {selTarget}]

\* C30: the expression "(//*)[n]" getXPath returns for an element, evaluated
\* against the whole document, yields that element.
C30_XPathResolves ==
    (xpOut # <<>> /\ xpOut[1] # <<>>) => evaluate(selDoc, xpOut[1]) = {selTarget}

----------------------------------------------------------------------------
(* Masking claims *)

\* The element is of type password, or its name, id and class, concatenated and
\* lower-cased, hold a sensitive keyword.
IsSensitive(el) ==
    \/ el.type = "password"
    \/ \E field \in sensitiveFields :
           Includes(toLowerCase(el.name \o el.id \o el.className), field)

\* str[a..b] is local@domain: one or more local characters, '@', one or more
\* domain characters, '.', two or more letters.
EmailLike(str, a, b) ==
    \E at \in (a + 1)..(b - 4) :
        /\ str[at] = "@"
        /\ \A m \in a..(at - 1) : str[m] \in LocalChars
        /\ \E q \in (at + 2)..(b - 2) :
               /\ str[q] = "."
               /\ \A m \in (at + 1)..(q - 1) : str[m] \in DomainChars
               /\ \A m \in (q + 1)..b : str[m] \in Letters

HasEmail(str) == \E a \in 1..Len(str) : \E b \in a..Len(str) : EmailLike(str, a, b)

\* The value with each email-like substring, taken from left to right and as
\* long as it can be, replaced by its first character, "***@" and its domain.
RECURSIVE Redact(_, _)
Redact(str, i) ==
    IF i > Len(str) THEN <<>>
    ELSE LET ends == {e \in i..Len(str) : EmailLike(str, i, e)} IN
         IF ends # {}
         THEN LET at == CHOOSE k \in i..Len(str) :
                            str[k] = "@" /\ \A m \in i..(k - 1) : str[m] # "@"
              IN  <<str[i], "*", "*", "*", "@">> \o SubSeq(str, at + 1, Max(ends))
                      \o Redact(str, Max(ends) + 1)
         ELSE <<str[i]>> \o Redact(str, i + 1)

\* C12: for a password-type element, or one whose name+id+class holds a
\* sensitive keyword, maskSensitiveData returns only '*' characters, as many
\* as the value has characters.
C12_SensitiveValueFullyMasked ==
    (Len(maskOut) >= 1 /\ IsSensitive(Fields[maskEl]))
    => OnlyStars(maskOut[1]) /\ Len(maskOut[1]) = Len(maskVal)

\* C12 witness: "hunter2" in a text field that is sensitive by its name and id
\* has been masked to seven '*'.
C12_Hunter2Masked ==
    /\ maskVal = Hunter2
    /\ Fields[maskEl].type = "text"
    /\ IsSensitive(Fields[maskEl])
    /\ maskOut = <<<<"*", "*", "*", "*", "*", "*", "*">>>>

\* C13: for a non-sensitive field the result is the value with every
\* email-like substring replaced by the first character of its local part,
\* "***@" and its domain, all other characters as they were; so no email-like
\* substring is left in the result.
C13_EmailsRedacted ==
    (Len(maskOut) >= 1 /\ ~IsSensitive(Fields[maskEl]))
    => maskOut[1] = Redact(maskVal, 1) /\ ~HasEmail(maskOut[1])

\* C14: masking a value of '*' characters only returns it unchanged, and
\* masking a masked value returns it unchanged.
C14_MaskIdempotent ==
    /\ (Len(maskOut) >= 1 /\ OnlyStars(maskVal)) => maskOut[1] = maskVal
    /\ Len(maskOut) >= 2 => maskOut[2] = maskOut[1]

----------------------------------------------------------------------------
(* Session claims *)

\* C5: no action in the session of the page's tab comes from an event that
\* happened while that session was paused.
C5_PausedEventsDropped ==
    \A i \in 1..Len(sessions[PageTab].actions) :
        LET a == sessions[PageTab].actions[i]
        IN  ~(a.origin.paused /\ a.origin.sid = sessions[PageTab].id)

\* C33: every action in the session of the page's tab comes from an event
\* that happened while that same session was in the registry: no action of an
\* event from the time of an earlier session, since stopped, is appended to a
\* later session of the tab.
C33_ActionsOfOwnSession ==
    \A i \in 1..Len(sessions[PageTab].actions) :
        sessions[PageTab].actions[i].origin.sid = sessions[PageTab].id

\* C6: a startRecording call made for a tab that has a session in the registry
\* never enters a session of its own in the registry and never resolves.
C6_StartFailsWhenActive ==
    lastOp.op \in {"startRecording", "startResolved"} => ~lastOp.result.active

\* C35: a startRecording call that fails at the handshake with the content
\* script removes from the registry only the session it created itself: the
\* session a rejected call takes away is never that of another call.
C35_Step ==
    \A t \in Tabs :
        (/\ lastOp'.op = "startRejected"
         /\ sessions[t] # NoSession
         /\ sessions'[t] = NoSession)
        => /\ lastOp'.tab = t
           /\ lastOp'.result.sid = sessions[t].id

C35_FailedStartRemovesOwnSession == [][C35_Step]_vars

\* The recorder is recording once the messages on their way to the content
\* script have been delivered.
RecordingWhenDelivered ==
    LET ctl == {k \in DOMAIN toContent :
                   toContent[k].action \in {"startRecording", "stopRecording"}}
    IN  IF ctl = {} THEN isRecording
        ELSE toContent[Max(ctl)].action = "startRecording"

\* C36: once stopRecording has removed the session of the page's tab, and
\* until startRecording is called for the tab again, the content recorder is
\* not recording, or stops when the messages already sent reach it: no delayed
\* message switches it back to recording.
C36_NoRestartAfterStop ==
    PageTab \in stopLog.idle => ~RecordingWhenDelivered

\* C37: the record of an action is appended exactly when the session of its
\* tab is recording at the moment the record arrives: a record that arrives
\* while the session is paused leaves the session as it is, and the session's
\* sequence grows only by the record arriving in that step, so a record
\* dropped during a pause is not appended after resume.
C37_Step ==
    LET arrives   == Len(sent) > 0 /\ sent' = Tail(sent)
        session   == sessions[PageTab]
        recording == session.id # 0 /\ ~session.isPaused
        after     == sessions'[PageTab]
    IN  /\ arrives =>
              IF recording
              THEN /\ after.id = session.id
                   /\ Len(after.actions) = Len(session.actions) + 1
                   /\ SubSeq(after.actions, 1, Len(session.actions)) = session.actions
                   /\ LET entry == after.actions[Len(after.actions)] IN
                      \A f \in DOMAIN Head(sent) : entry[f] = Head(sent)[f]
              ELSE after = session
        /\ (after.id = session.id /\ after.actions # session.actions)
              => arrives /\ recording

C37_AppendedIffRecordingOnArrival == [][C37_Step]_vars

\* C37 witness: the record of a click made while the session was recording
\* has arrived during a pause and was not appended; the session has been
\* resumed since and its sequence is still empty.
C37_DroppedAndResumed ==
    /\ lastOp.op = "resumeRecording"
    /\ lastOp.tab = PageTab
    /\ lastOp.result = TRUE
    /\ sent = <<>>
    /\ inflight = {}
    /\ appended = 0
    /\ sessions[PageTab].actions = <<>>
    /\ \E a \in lastAction :
          /\ a.type = "click"
          /\ ~a.origin.paused
          /\ a.origin.sid = sessions[PageTab].id

\* C38: the timestamps of a session's actions are those of the moments of
\* appending: in every session they are non-decreasing in sequence order and
\* none is earlier than the session's startTime.
C38_TimestampsInAppendOrder ==
    \A t \in Tabs :
        \A i \in 1..Len(sessions[t].actions) :
            /\ sessions[t].actions[i].timestamp >= sessions[t].startTime
            /\ i > 1 => sessions[t].actions[i - 1].timestamp
                            <= sessions[t].actions[i].timestamp

\* C38 witness: a session started after the page-load epoch holds two records
\* appended at different moments.
C38_TwoStamped ==
    \E t \in Tabs :
        /\ Len(sessions[t].actions) = 2
        /\ sessions[t].startTime > EpochMs
        /\ sessions[t].actions[1].timestamp < sessions[t].actions[2].timestamp

\* C7: addAction(tabId, action) returns true exactly when the tab has a session
\* that is not paused; then it appends one record to that session and changes
\* nothing else, and otherwise it changes no session at all.
C7_Step ==
    (/\ lastOp'.op = "addAction"
     /\ \/ lastOp.op # "addAction"
        \/ lastOp'.tab # lastOp.tab
        \/ lastOp'.result # lastOp.result
        \/ sessions' # sessions)
    => LET t == lastOp'.tab
           recording == sessions[t].id # 0 /\ ~sessions[t].isPaused
       IN  /\ lastOp'.result = recording
           /\ \A u \in Tabs \ {t} : sessions'[u] = sessions[u]
           /\ IF recording
              THEN /\ Len(sessions'[t].actions) = Len(sessions[t].actions) + 1
                   /\ SubSeq(sessions'[t].actions, 1, Len(sessions[t].actions))
                        = sessions[t].actions
                   /\ [sessions'[t] EXCEPT !.actions = sessions[t].actions] = sessions[t]
              ELSE sessions'[t] = sessions[t]

C7_AppendOnlyWhenRecording == [][C7_Step]_vars

\* C16: once stopRecording has removed the session of a tab, and until
\* startRecording is called for the tab again, the tab has no session, and
\* pauseRecording, resumeRecording and addAction for it return false.
C16_IdleAfterStop ==
    /\ \A t \in stopLog.idle : sessions[t] = NoSession
    /\ (/\ lastOp.op \in {"pauseRecording", "resumeRecording", "addAction"}
        /\ lastOp.tab \in stopLog.idle) => lastOp.result = FALSE

\* C17: stopRecording on a tab that has a session returns an export with the
\* session's id and its actions in append order, removes the session from the
\* registry and sends the content script of the tab a stopRecording message;
\* no session whose export was returned is in the registry afterwards, so
\* nothing can append to the exported action sequence.
C17_Step ==
    /\ stopLog'.ids # stopLog.ids
       => LET t == lastOp'.tab IN
          /\ lastOp'.op = "stopRecording"
          /\ sessions[t].id # 0
          /\ lastOp'.result.id = sessions[t].id
          /\ lastOp'.result.actions = sessions[t].actions
          /\ sessions'[t] = NoSession
          /\ (t = PageTab /\ t \in openTabs')
             => /\ Len(toContent') = Len(toContent) + 1
                /\ toContent'[Len(toContent')].action = "stopRecording"
    /\ \A u \in Tabs : sessions'[u].id \notin stopLog'.ids

C17_StopExportsAndRemoves == [][C17_Step]_vars

\* C17 witness: stopRecording has just returned the export of the page's
\* session with a record in it, the session is gone and the stopRecording
\* message is on its way to the content script.
C17_StoppedWithActions ==
    /\ lastOp.op = "stopRecording"
    /\ lastOp.tab = PageTab
    /\ lastOp.result.id # 0
    /\ Len(lastOp.result.actions) > 0
    /\ sessions[PageTab] = NoSession
    /\ Len(toContent) > 0
    /\ toContent[Len(toContent)].action = "stopRecording"

\* C18: while the page's tab has a session that is not paused, the recorder has
\* been started for that session and no control message is on its way, a click
\* on the page produces an action.
C18_Step ==
    (/\ eventCount' = eventCount + 1
     /\ sessions[PageTab].id # 0
     /\ ~sessions[PageTab].isPaused
     /\ isRecording
     /\ sessionId = sessions[PageTab].id
     /\ toContent = <<>>)
    => nextActionNo' = nextActionNo + 1

C15_OneSessionPerTab ==
    lastOp.op = "startResolved" => sessions[lastOp.tab].id \in {0, lastOp.result.sid}

\* C7 witness: addAction has just returned false for a paused session that
\* holds a record appended earlier.
C7_RejectedWhilePaused ==
    /\ lastOp.op = "addAction"
    /\ lastOp.result = FALSE
    /\ sessions[lastOp.tab].id # 0
    /\ sessions[lastOp.tab].isPaused
    /\ Len(sessions[lastOp.tab].actions) > 0

----------------------------------------------------------------------------
(* Form-capture claims *)

\* The control contributes to the map: it is named and not disabled, and a
\* checkbox or radio button is checked.
Contributes(element) ==
    /\ element.name # <<>>
    /\ ~element.disabled
    /\ element.type \in {"checkbox", "radio"} => element.checked

\* C32: the map of a submit action has an entry for a control exactly when the
\* control is named, not disabled and, for a checkbox or a radio button,
\* checked: the names of the map are the names of these controls, the entry of
\* a password control is "***" and the entry of any other text control is
\* maskSensitiveData of its value.
C32_FormDataEntries ==
    formOut # <<>> =>
        /\ DOMAIN formOut[1] =
              {formEls[i].name : i \in {k \in DOMAIN formEls : Contributes(formEls[k])}}
        /\ \A i \in DOMAIN formEls :
              LET element == formEls[i] IN
              /\ (Contributes(element) /\ element.type = "password")
                    => formOut[1][element.name] = <<"*", "*", "*">>
              /\ (Contributes(element) /\ element.type = "text")
                    => formOut[1][element.name] =
                          maskSensitiveData(element.value, element)

====
